---- MODULE Spec2Model ----
(***************************************************************************)
(* workpunch-server: the clock-record synchronisation of POST              *)
(* /api/sync-clock (the variant guarded by the user_locks table, the       *)
(* earlier variant without the lock, and the first variant, which creates  *)
(* when it finds nothing to update) and POST /api/sync-user, against the   *)
(* external record set (Workpunch__c) and the local tables companies and   *)
(* user_locks.                                                             *)
(*                                                                         *)
(* One step of a request is one round trip that the handler awaits: the    *)
(* database or the external system processes the call, and the handler     *)
(* resumes and runs synchronously up to the next call it issues.           *)
(***************************************************************************)
EXTENDS Integers, Sequences, FiniteSets, TLC

\* ------------------------------------------------------------- bounds
MaxReqs == 2
MaxRecords == 2
MaxBulkLen == 2
MaxFlows == 2

\* ------------------------------------------------------------- constants
ToleranceMs == 60000

Reqs == 1..MaxReqs
Subjects == {"a@x", "b@x"}

\* Instants are milliseconds after a base instant T.
Seconds(n) == n * 1000
T0 == Seconds(0)
T30s == Seconds(30)
T5min == Seconds(5 * 60)
T10min == Seconds(10 * 60)
Instants == {T0, T30s, T5min, T10min}
NaN == -1

\* ------------------------------------------------------------- date strings
\* A wire or stored string: absent/empty (falsy), an ISO-8601 UTC string with
\* milliseconds, or text that Date cannot parse.
NoString == [fmt |-> "none", v |-> 0]
Garbage == [fmt |-> "garbage", v |-> 0]
Iso(ms) == [fmt |-> "iso", v |-> ms]
IsoStrings == {Iso(t) : t \in Instants}

Truthy(s) == s.fmt # "none"

\* new Date(s): the instant, or an invalid Date (getTime() is NaN). A string in
\* the en-US locale format carries no zone and is read in the server's zone,
\* UTC.
ParseDate(s) == IF s.fmt \in {"iso", "locale"} THEN s.v ELSE NaN

IsNaN(d) == d = NaN

\* Date.prototype.toISOString() of a valid Date.
ToISOString(d) == [fmt |-> "iso", v |-> d]

\* The zones Intl accepts, with their offset from UTC; an abbreviation such as
\* "EDT" is none of them.
ValidTimeZone(tz) == tz \in {"UTC", "America/New_York"}
UtcOffset(tz) == IF tz = "America/New_York" THEN Seconds(0 - 5 * 3600) ELSE Seconds(0)

\* Date.prototype.toLocaleString('en-US', { timeZone: tz }) of a valid Date and
\* a valid zone: the wall-clock time in that zone, without the zone.
ToLocaleString(d, tz) == [fmt |-> "locale", v |-> d + UtcOffset(tz)]

Abs(x) == IF x < 0 THEN -x ELSE x

\* Mutant: equal instants pass the ordering check.
DateLeq_Strict(a, b) == ~IsNaN(a) /\ ~IsNaN(b) /\ a < b

\* clockOutDate <= clockInDate (false when either is NaN).
DateLeq(a, b) == ~IsNaN(a) /\ ~IsNaN(b) /\ a <= b

\* ------------------------------------------------------------- external records
Null == [fmt |-> "null", v |-> 0]

\* Mutant: the two location types are exchanged.
LocationType_Swapped(isRemote) == IF isRemote THEN "In Office" ELSE "Remote"

\* isRemote ? 'Remote' : 'In Office'
LocationType(isRemote) == IF isRemote THEN "Remote" ELSE "In Office"

\* Mutant: the payload carries a punch-out.
RecordPayload_PunchOut(userId, clockInDate, isRemote) ==
  [ Punch_In_Time__c  |-> ToISOString(clockInDate),
    Punch_Out_Time__c |-> ToISOString(clockInDate),
    Location_Type__c  |-> LocationType(isRemote),
    Employee_Email__c |-> userId ]

RecordPayload(userId, clockInDate, isRemote) ==
  [ Punch_In_Time__c  |-> ToISOString(clockInDate),
    Punch_Out_Time__c |-> Null,
    Location_Type__c  |-> LocationType(isRemote),
    Employee_Email__c |-> userId ]

\* The ids of the records of a subject whose punch-out is null.
ActiveIds(recs, userId) ==
  { i \in 1..Len(recs) : recs[i].Employee_Email__c = userId
                         /\ recs[i].Punch_Out_Time__c = Null }

NoRecord == 0

\* Mutant: the query orders by punch-in ascending.
ActiveQueryResults_Oldest(recs, userId) ==
  LET act == ActiveIds(recs, userId) IN
  IF act = {} THEN {NoRecord}
  ELSE { i \in act : \A j \in act :
           ParseDate(recs[i].Punch_In_Time__c) <= ParseDate(recs[j].Punch_In_Time__c) }

\* WHERE Employee_Email__c = userId AND Punch_Out_Time__c = null
\* ORDER BY Punch_In_Time__c DESC LIMIT 1: the ids the query may return (one
\* of them is returned), or NoRecord. Among equal punch-in times the external
\* system returns either.
ActiveQueryResults(recs, userId) ==
  LET act == ActiveIds(recs, userId) IN
  IF act = {} THEN {NoRecord}
  ELSE { i \in act : \A j \in act :
           ParseDate(recs[j].Punch_In_Time__c) <= ParseDate(recs[i].Punch_In_Time__c) }

\* Mutant: only the exact punch-in matches.
ClockInMismatch_Exact(existingClockIn, clockInDate) ==
  existingClockIn # clockInDate

\* Mutant: the difference is compared in seconds against the millisecond bound.
ClockInMismatch_Seconds(existingClockIn, clockInDate) ==
  Abs(existingClockIn - clockInDate) \div 1000 > ToleranceMs

\* Mutant: a difference of exactly the tolerance is a mismatch.
ClockInMismatch_Exclusive(existingClockIn, clockInDate) ==
  Abs(existingClockIn - clockInDate) >= ToleranceMs

\* Math.abs(existingClockIn - clockInDate) > 60000
ClockInMismatch(existingClockIn, clockInDate) ==
  Abs(existingClockIn - clockInDate) > ToleranceMs

\* ------------------------------------------------------------- user_locks
NoRow == [lock_id |-> 0, stale |-> FALSE]
NoLock == 0

\* Mutant: the insert replaces an existing row (ON CONFLICT DO UPDATE).
InsertLock_Upsert(locks, userId, lockId) ==
  [table |-> [locks EXCEPT ![userId] = [lock_id |-> lockId, stale |-> FALSE]],
   returned |-> lockId]

\* Mutant: one lock for all subjects.
InsertLock_Global(locks, userId, lockId) ==
  IF \A u \in DOMAIN locks : locks[u] = NoRow
    THEN [table |-> [locks EXCEPT ![userId] = [lock_id |-> lockId, stale |-> FALSE]],
          returned |-> lockId]
    ELSE [table |-> locks, returned |-> NoLock]

\* INSERT INTO user_locks ... ON CONFLICT (user_id) DO NOTHING RETURNING lock_id
InsertLock(locks, userId, lockId) ==
  IF locks[userId] = NoRow
    THEN [table |-> [locks EXCEPT ![userId] = [lock_id |-> lockId, stale |-> FALSE]],
          returned |-> lockId]
    ELSE [table |-> locks, returned |-> NoLock]

\* DELETE FROM user_locks WHERE user_id = $1
DeleteLock(locks, userId) == [locks EXCEPT ![userId] = NoRow]

\* Mutant: the patch closes every active record of the record's subject.
ApplyPatch_AllActive(recs, id, clockOutDate) ==
  [i \in 1..Len(recs) |->
     IF recs[i].Employee_Email__c = recs[id].Employee_Email__c
        /\ recs[i].Punch_Out_Time__c = Null
       THEN [recs[i] EXCEPT !.Punch_Out_Time__c = ToISOString(clockOutDate)]
       ELSE recs[i]]

\* PATCH sobjects/Workpunch__c/<id> { Punch_Out_Time__c }
ApplyPatch(recs, id, clockOutDate) ==
  [recs EXCEPT ![id].Punch_Out_Time__c = ToISOString(clockOutDate)]

\* POST sobjects/Workpunch__c: the external system appends the record and
\* assigns the next id.
ApplyCreate(recs, payload) == Append(recs, payload)

\* ------------------------------------------------------------- responses
NoResp == [status |-> 0, success |-> FALSE, kind |-> "none", id |-> NoRecord,
           punchInTime |-> NoString, locationType |-> ""]

\* res.status(status).json({ error: kind })
Error(status, kind) == [NoResp EXCEPT !.status = status, !.kind = kind]

\* res.status(200).json({ success: true, message: kind })
Success(kind) == [NoResp EXCEPT !.status = 200, !.success = TRUE, !.kind = kind]

\* res.status(200).json({ success: true, salesforceId: id })
SuccessId(kind, id) == [Success(kind) EXCEPT !.id = id]

\* res.status(..).json(..): one more response of this invocation.
Send(q, resp) == [q EXCEPT !.resp = resp, !.nResp = @ + 1]

\* ------------------------------------------------------------- state
VARIABLES
  records,     \* the external record set (Workpunch__c), in creation order
  user_locks,  \* table user_locks: user_id -> row
  companies,   \* table companies holds a row
  req,         \* the sync-clock invocations
  bulk,        \* the sync-user invocation
  server,      \* the host process: how far startServer has got
  oauth        \* the multi-organization variant: table companies by row, the
               \* clock, and the connect, callback and verify invocations

vars == <<records, user_locks, companies, req, bulk, server, oauth>>

\* One authorization flow per organization: its connect, callback and verify
\* invocations.
Flows == 1..MaxFlows

\* `org_${Date.now()}`: the code is the millisecond it was made in.
NoCode == 0
OrgCode(now) == now

\* The companyDomain of the organization of flow f; 'default.com'.
DomainOf(f) == f
DefaultDomain == 0

\* companyDomain.split('.')[0]; 'Default Company'.
DomainPrefix(domain) == <<"prefix", domain>>
DefaultCompanyName == <<"Default Company">>

\* The credentials the token endpoint issues for the authorization code of
\* flow f; the three null values connect-salesforce stores.
Token(f) == [fmt |-> "token", v |-> f]
Tokens(a, r, u) == [access_token |-> a, refresh_token |-> r, instance_url |-> u]
NullTokens == Tokens(Null, Null, Null)
IssuedTokens(f) == Tokens(Token(f), Token(f), Token(f))

\* The token request has not been answered; it was rejected or timed out.
NoExchange == [access_token |-> Null, refresh_token |-> Null, instance_url |-> Null,
               answer |-> "none"]
ExchangeFailed == [NoExchange EXCEPT !.answer = "failed"]
Answered(data) == [NoExchange EXCEPT !.access_token = data.access_token,
                                     !.refresh_token = data.refresh_token,
                                     !.instance_url = data.instance_url,
                                     !.answer = "data"]

NoCompany ==
  [ organization_code |-> NoCode, company_name |-> <<>>, company_domain |-> DefaultDomain,
    tokens |-> NullTokens ]

IdleConnect == [pc |-> "idle", status |-> 0, organizationCode |-> NoCode]

IdleCallback ==
  [ pc |-> "idle", status |-> 0, tokens |-> NullTokens, organizationCode |-> NoCode,
    companyInfo |-> NoCompany, initiated |-> NoCode, storedUnder |-> NoCode,
    nExchange |-> 0, nStore |-> 0, hasCode |-> FALSE, got |-> NoExchange ]

IdleVerify == [pc |-> "idle", status |-> 0, connected |-> FALSE, hadToken |-> FALSE]

\* The table companies is empty, the clock starts, nothing has been called:
\* connect, callback and verify hold the invocations received, by flow.
IdleOAuth ==
  [ now |-> 1, rows |-> <<>>, connect |-> <<>>, callback |-> <<>>, verify |-> <<>> ]

\* The invocation of flow f among those received, or the one not yet received.
Called(calls, f, idle) == IF f \in DOMAIN calls THEN calls[f] ELSE idle

\* The invocations with that of flow f at v.
Put(calls, f, v) == [g \in DOMAIN calls \cup {f} |-> IF g = f THEN v ELSE calls[g]]

ConnectOf(f) == Called(oauth.connect, f, IdleConnect)
CallbackOf(f) == Called(oauth.callback, f, IdleCallback)
VerifyOf(f) == Called(oauth.verify, f, IdleVerify)

\* requestId is counted from 1.
NoReq == 0

IdleReq ==
  [ pc |-> "idle", userId |-> "", clockIn |-> NoString, clockOut |-> NoString,
    isRemote |-> FALSE, timezone |-> "", lockId |-> NoLock, rec |-> NoRecord, resp |-> NoResp,
    nResp |-> 0, nCompany |-> 0, nQuery |-> 0, nCreate |-> 0, nPatch |-> 0,
    blockedBy |-> NoLock, sawStale |-> FALSE,
    sawAbandoned |-> FALSE, queried |-> "no", wrote |-> NoRecord,
    hadActive |-> FALSE, retryOf |-> NoReq, lookup |-> "no",
    extError |-> "none" ]

IdleBulk ==
  [ pc |-> "idle", id |-> "", clockRecords |-> <<>>, i |-> 1, resp |-> NoResp,
    wrote |-> <<>> ]

\* What the external system holds when the server starts: nothing, or one
\* active record left by an earlier run.
InitialStores ==
  { <<>>, << RecordPayload("a@x", T0, TRUE) >> }

\* startServer() is called: initDb() is awaited.
Starting == [phase |-> "initDb", db |-> "pending", exitCode |-> 0]

\* Mutant: a failure of initDb is logged and the server listens all the same.
OnInitDb_KeepRunning(srv, ok) ==
  IF ok THEN [srv EXCEPT !.phase = "listening", !.db = "ready"]
        ELSE [srv EXCEPT !.phase = "listening", !.db = "failed"]

\* startServer after initDb(): app.listen(PORT), or the catch with
\* process.exit(1).
OnInitDb(srv, ok) ==
  IF ok THEN [srv EXCEPT !.phase = "listening", !.db = "ready"]
        ELSE [srv EXCEPT !.phase = "exited", !.db = "failed", !.exitCode = 1]

\* The server is up: initDb() has resolved and app.listen was called.
Listening == OnInitDb(Starting, TRUE)

Init ==
  /\ records \in InitialStores
  /\ user_locks = [u \in Subjects |-> NoRow]
  /\ companies \in BOOLEAN
  /\ req = [r \in Reqs |-> IdleReq]
  /\ bulk = IdleBulk
  /\ server = Listening
  /\ oauth = IdleOAuth

\* The process has been started and startServer() called.
InitStartup ==
  /\ records \in InitialStores
  /\ user_locks = [u \in Subjects |-> NoRow]
  /\ companies \in BOOLEAN
  /\ req = [r \in Reqs |-> IdleReq]
  /\ bulk = IdleBulk
  /\ server = Starting
  /\ oauth = IdleOAuth

\* initDb() resolves or rejects.
InitDb ==
  /\ server.phase = "initDb"
  /\ \E ok \in BOOLEAN : server' = OnInitDb(server, ok)
  /\ UNCHANGED <<records, user_locks, companies, req, bulk, oauth>>

InFlight(q) == q.pc \notin {"idle", "done", "crashed", "rejected"}

\* Between a successful acquireLock and the completion of releaseLock.
Holding(q) == q.lockId # NoLock /\ q.pc \notin {"done", "crashed"}

\* ------------------------------------------------------------- sync-clock, locked
Body(u, ci, co, rem, tz) ==
  [userId |-> u, clockIn |-> ci, clockOut |-> co, isRemote |-> rem, timezone |-> tz]

\* The request bodies: clock-ins, clock-outs that match exactly, within the
\* tolerance and outside it, and bodies that fail validation.
ClockRequests ==
  { Body("a@x", Iso(T0), NoString, TRUE, "EDT"),
    Body("a@x", Iso(T0), Iso(T5min), TRUE, "EDT"),
    Body("a@x", Iso(T30s), Iso(T5min), TRUE, "EDT"),
    Body("a@x", Iso(T5min), Iso(T10min), TRUE, "EDT"),
    Body("a@x", Iso(T5min), Iso(T0), TRUE, "EDT"),
    Body("a@x", Garbage, NoString, TRUE, "EDT"),
    Body("a@x", Iso(T0), Garbage, TRUE, "EDT"),
    Body("b@x", Iso(T0), NoString, FALSE, "EDT") }

\* The earlier invocations that the arriving request b repeats in sequence: a
\* request with the same body that was answered 200 for its patch, whose patch
\* is the last change to the subject's records (the punch-out it set stands,
\* the subject has no active record), no other request of the subject being in
\* flight.
Repeated(b, recs, rq) ==
  { h \in Reqs :
      /\ rq[h].pc # "idle"
      /\ Body(rq[h].userId, rq[h].clockIn, rq[h].clockOut,
              rq[h].isRemote, rq[h].timezone) = b
      /\ rq[h].resp.kind = "patched"
      /\ recs[rq[h].wrote].Punch_Out_Time__c = rq[h].clockOut
      /\ ActiveIds(recs, b.userId) = {}
      /\ \A s \in Reqs \ {h} : rq[s].userId = b.userId => ~InFlight(rq[s]) }

\* The request arrives; the handler issues acquireLock(userId).
Receive(r) ==
  /\ server.phase = "listening"
  /\ req[r].pc = "idle"
  /\ \A s \in Reqs : s < r => req[s].pc # "idle"
  /\ \E b \in ClockRequests :
       req' = [req EXCEPT ![r] =
                 [IdleReq EXCEPT !.pc = "acquire", !.userId = b.userId,
                                 !.clockIn = b.clockIn, !.clockOut = b.clockOut,
                                 !.isRemote = b.isRemote, !.timezone = b.timezone,
                                 !.retryOf = IF Repeated(b, records, req) = {} THEN NoReq
                                             ELSE CHOOSE h \in Repeated(b, records, req) : TRUE]]
  /\ UNCHANGED <<records, user_locks, companies, bulk, server, oauth>>

\* Mutant: contention answered as an error.
OnLockResult_Conflict(q, returned) ==
  IF returned = NoLock
    THEN [Send(q, Error(409, "locked")) EXCEPT !.pc = "done"]
    ELSE [q EXCEPT !.lockId = returned, !.pc = "company"]

\* Mutant: the handler goes on into the try block without the lock.
OnLockResult_Proceed(q, returned) ==
  [q EXCEPT !.lockId = returned, !.pc = "company"]

\* Mutant: the acquisition is inside the try block, the finally runs for a
\* request that got no lock.
OnLockResult_ReleaseAnyway(q, returned) ==
  IF returned = NoLock
    THEN [Send(q, Success("in_progress")) EXCEPT !.pc = "release"]
    ELSE [q EXCEPT !.lockId = returned, !.pc = "company"]

\* if (!lockId) return 200 'Request already being processed'; otherwise the
\* try block is entered and the companies query issued.
OnLockResult(q, returned) ==
  IF returned = NoLock
    THEN [Send(q, Success("in_progress")) EXCEPT !.pc = "done"]
    ELSE [q EXCEPT !.lockId = returned, !.pc = "company"]

AcquireLock(r) ==
  /\ req[r].pc = "acquire"
  /\ LET q == req[r]
         row == user_locks[q.userId]
         ins == InsertLock(user_locks, q.userId, r)
         q1 == [q EXCEPT !.blockedBy = row.lock_id, !.sawStale = row.stale,
                         !.sawAbandoned = (row # NoRow /\ req[row.lock_id].pc = "crashed")]
     IN /\ user_locks' = ins.table
        /\ req' = [req EXCEPT ![r] = OnLockResult(q1, ins.returned)]
  /\ UNCHANGED <<records, companies, bulk, server, oauth>>

\* The validation of the parsed dates: the 400 it answers with, or "ok".
Validate(clockInDate, clockOut, clockOutDate) ==
  IF IsNaN(clockInDate) THEN "invalid_clock_in"
  ELSE IF Truthy(clockOut) /\ IsNaN(clockOutDate) THEN "invalid_clock_out"
  ELSE IF Truthy(clockOut) /\ DateLeq(clockOutDate, clockInDate) THEN "ordering"
  ELSE "ok"

ClockInDate(q) == ParseDate(q.clockIn)
ClockOutDate(q) == IF Truthy(q.clockOut) THEN ParseDate(q.clockOut) ELSE NaN

\* The log of the parsed dates calls toISOString() on clockInDate, and on
\* clockOutDate when there is one: an invalid Date throws a RangeError there,
\* before the validation is reached.
LogParsedDatesThrows(clockInDate, clockOut, clockOutDate) ==
  IsNaN(clockInDate) \/ (Truthy(clockOut) /\ IsNaN(clockOutDate))

\* Mutant: the missing-company return leaves the handler before the finally.
OnCompany_ReturnEarly(q, dbOk, hasRow) ==
  LET v == Validate(ClockInDate(q), q.clockOut, ClockOutDate(q)) IN
  IF ~dbOk THEN [Send(q, Error(500, "sync_failed")) EXCEPT !.pc = "release"]
  ELSE IF ~hasRow THEN [Send(q, Error(404, "no_company")) EXCEPT !.pc = "done"]
  ELSE IF LogParsedDatesThrows(ClockInDate(q), q.clockOut, ClockOutDate(q))
    THEN [Send(q, Error(500, "sync_failed")) EXCEPT !.pc = "release"]
  ELSE IF v # "ok" THEN [Send(q, Error(400, v)) EXCEPT !.pc = "release"]
  ELSE IF Truthy(q.clockOut) THEN [q EXCEPT !.pc = "queryOut"]
  ELSE [q EXCEPT !.pc = "queryIn"]

\* Mutant: the handler goes on when the companies table has no row.
OnCompany_IgnoreMissing(q, dbOk, hasRow) ==
  LET v == Validate(ClockInDate(q), q.clockOut, ClockOutDate(q)) IN
  IF ~dbOk THEN [Send(q, Error(500, "sync_failed")) EXCEPT !.pc = "release"]
  ELSE IF LogParsedDatesThrows(ClockInDate(q), q.clockOut, ClockOutDate(q))
    THEN [Send(q, Error(500, "sync_failed")) EXCEPT !.pc = "release"]
  ELSE IF v # "ok" THEN [Send(q, Error(400, v)) EXCEPT !.pc = "release"]
  ELSE IF Truthy(q.clockOut) THEN [q EXCEPT !.pc = "queryOut"]
  ELSE [q EXCEPT !.pc = "queryIn"]

\* Mutant: a clock-in is created without the active-record check.
OnCompany_SkipQuery(q, dbOk, hasRow) ==
  LET v == Validate(ClockInDate(q), q.clockOut, ClockOutDate(q)) IN
  IF ~dbOk THEN [Send(q, Error(500, "sync_failed")) EXCEPT !.pc = "release"]
  ELSE IF ~hasRow THEN [Send(q, Error(404, "no_company")) EXCEPT !.pc = "release"]
  ELSE IF LogParsedDatesThrows(ClockInDate(q), q.clockOut, ClockOutDate(q))
    THEN [Send(q, Error(500, "sync_failed")) EXCEPT !.pc = "release"]
  ELSE IF v # "ok" THEN [Send(q, Error(400, v)) EXCEPT !.pc = "release"]
  ELSE IF Truthy(q.clockOut) THEN [q EXCEPT !.pc = "queryOut"]
  ELSE [q EXCEPT !.pc = "create"]

\* The handler after the companies query, up to the query it issues. A
\* RangeError thrown in the try block is answered by the outer catch.
OnCompany(q, dbOk, hasRow) ==
  LET v == Validate(ClockInDate(q), q.clockOut, ClockOutDate(q)) IN
  IF ~dbOk THEN [Send(q, Error(500, "sync_failed")) EXCEPT !.pc = "release"]
  ELSE IF ~hasRow THEN [Send(q, Error(404, "no_company")) EXCEPT !.pc = "release"]
  ELSE IF LogParsedDatesThrows(ClockInDate(q), q.clockOut, ClockOutDate(q))
    THEN [Send(q, Error(500, "sync_failed")) EXCEPT !.pc = "release"]
  ELSE IF v # "ok" THEN [Send(q, Error(400, v)) EXCEPT !.pc = "release"]
  ELSE IF Truthy(q.clockOut) THEN [q EXCEPT !.pc = "queryOut"]
  ELSE [q EXCEPT !.pc = "queryIn"]

\* The companies query was processed: what this invocation got.
LookedUp(q, dbOk, hasRow) ==
  [q EXCEPT !.nCompany = @ + 1,
            !.lookup = IF ~dbOk THEN "failed" ELSE IF hasRow THEN "found" ELSE "empty"]

GetCompany(r) ==
  /\ req[r].pc = "company"
  /\ \E dbOk \in BOOLEAN :
       req' = [req EXCEPT ![r] =
                 OnCompany(LookedUp(req[r], dbOk, companies), dbOk, companies)]
  /\ UNCHANGED <<records, user_locks, companies, bulk, server, oauth>>

\* The subject has an active record when the query is processed.
SawActive(q, recs) == [q EXCEPT !.hadActive = ActiveIds(recs, q.userId) # {}]

\* The query of the active record was processed: what this invocation saw.
Queried(q, ok, found) ==
  [q EXCEPT !.nQuery = @ + 1,
            !.queried = IF ~ok THEN "failed"
                        ELSE IF found = NoRecord THEN "empty" ELSE "found",
            !.rec = IF ok THEN found ELSE NoRecord]

\* The handler after the clock-out query: mismatch, patch issued, or 404.
OnQueryOut(q, ok, found, recs) ==
  IF ~ok THEN [Send(q, Error(500, "sync_failed")) EXCEPT !.pc = "release"]
  ELSE IF found # NoRecord
    THEN IF ClockInMismatch(ParseDate(recs[found].Punch_In_Time__c), ClockInDate(q))
           THEN [Send(q, Error(400, "clock_in_mismatch")) EXCEPT !.pc = "release"]
           ELSE [q EXCEPT !.pc = "patch"]
    ELSE [Send(q, Error(404, "no_active_record")) EXCEPT !.pc = "release"]

QueryOut(r) ==
  /\ req[r].pc = "queryOut"
  /\ \E ok \in BOOLEAN, found \in ActiveQueryResults(records, req[r].userId) :
       req' = [req EXCEPT ![r] =
                 OnQueryOut(Queried(SawActive(req[r], records), ok, found),
                            ok, found, records)]
  /\ UNCHANGED <<records, user_locks, companies, bulk, server, oauth>>

\* Mutant: after a successful patch the finally runs with no response sent.
OnPatch_NoResponse(q, ok) ==
  IF ok THEN [q EXCEPT !.pc = "release"]
        ELSE [Send(q, Error(500, "update_failed")) EXCEPT !.pc = "release"]

\* The handler after the patch: 200 with the record's id, or the inner catch.
OnPatch(q, ok) ==
  IF ok THEN [Send(q, SuccessId("patched", q.rec)) EXCEPT !.pc = "release"]
        ELSE [Send(q, Error(500, "update_failed")) EXCEPT !.pc = "release"]

Patch(r) ==
  /\ req[r].pc = "patch"
  /\ \E ok \in BOOLEAN :
       /\ records' = IF ok THEN ApplyPatch(records, req[r].rec, ClockOutDate(req[r]))
                           ELSE records
       /\ req' = [req EXCEPT ![r] =
                    OnPatch([req[r] EXCEPT !.nPatch = @ + 1,
                               !.wrote = IF ok THEN req[r].rec ELSE NoRecord], ok)]
  /\ UNCHANGED <<user_locks, companies, bulk, server, oauth>>

\* 200 'Already clocked in' with the existing record's id, punch-in and location.
AlreadyResponse(recs, found) ==
  [SuccessId("already_clocked_in", found) EXCEPT
     !.punchInTime = recs[found].Punch_In_Time__c,
     !.locationType = recs[found].Location_Type__c]

\* The handler after the active-record check of a clock-in.
OnQueryIn(q, ok, found, recs) ==
  IF ~ok THEN [Send(q, Error(500, "sync_failed")) EXCEPT !.pc = "release"]
  ELSE IF found # NoRecord
    THEN [Send(q, AlreadyResponse(recs, found)) EXCEPT !.pc = "release"]
    ELSE [q EXCEPT !.pc = "create"]

QueryIn(r) ==
  /\ req[r].pc = "queryIn"
  /\ \E ok \in BOOLEAN, found \in ActiveQueryResults(records, req[r].userId) :
       req' = [req EXCEPT ![r] =
                 OnQueryIn(Queried(req[r], ok, found), ok, found, records)]
  /\ UNCHANGED <<records, user_locks, companies, bulk, server, oauth>>

\* Mutant: a create that failed is issued again.
OnCreate_Retry(q, ok, newId) ==
  IF ok THEN [Send(q, SuccessId("created", newId)) EXCEPT !.pc = "release"]
        ELSE [q EXCEPT !.pc = "create"]

\* The handler after the create: 200 with response.data.id, or the inner catch.
OnCreate(q, ok, newId) ==
  IF ok THEN [Send(q, SuccessId("created", newId)) EXCEPT !.pc = "release"]
        ELSE [Send(q, Error(500, "create_failed")) EXCEPT !.pc = "release"]

\* The external system accepts a create only below its capacity (the bound of
\* the model); it can always refuse.
CreateOutcomes(recs) == IF Len(recs) < MaxRecords THEN BOOLEAN ELSE {FALSE}

Create(r) ==
  /\ req[r].pc = "create"
  /\ \E ok \in CreateOutcomes(records) :
       LET q == req[r]
           payload == RecordPayload(q.userId, ClockInDate(q), q.isRemote)
       IN /\ records' = IF ok THEN ApplyCreate(records, payload) ELSE records
          /\ req' = [req EXCEPT ![r] =
                       OnCreate([q EXCEPT !.nCreate = @ + 1,
                                   !.wrote = IF ok THEN Len(records') ELSE NoRecord],
                                ok, Len(records) + 1)]
  /\ UNCHANGED <<user_locks, companies, bulk, server, oauth>>

\* The external system applies the patch, and the call is reported to the
\* handler as failed (the connection breaks before the response arrives, or the
\* response is not a 2xx): axios.patch rejects and the inner catch answers.
PatchLost(r) ==
  /\ req[r].pc = "patch"
  /\ records' = ApplyPatch(records, req[r].rec, ClockOutDate(req[r]))
  /\ req' = [req EXCEPT ![r] =
               OnPatch([req[r] EXCEPT !.nPatch = @ + 1, !.wrote = req[r].rec], FALSE)]
  /\ UNCHANGED <<user_locks, companies, bulk, server, oauth>>

\* The external system creates the record, and the call is reported to the
\* handler as failed: axios.post rejects and the inner catch answers.
CreateLost(r) ==
  /\ req[r].pc = "create"
  /\ Len(records) < MaxRecords
  /\ LET q == req[r]
         payload == RecordPayload(q.userId, ClockInDate(q), q.isRemote)
     IN /\ records' = ApplyCreate(records, payload)
        /\ req' = [req EXCEPT ![r] =
                     OnCreate([q EXCEPT !.nCreate = @ + 1, !.wrote = Len(records')],
                              FALSE, Len(records) + 1)]
  /\ UNCHANGED <<user_locks, companies, bulk, server, oauth>>

\* process.on('unhandledRejection'): the rejection of the handler's promise is
\* logged and the process keeps running; the invocation is over.
UnhandledRejection(q) == [q EXCEPT !.pc = IF q.nResp = 0 THEN "rejected" ELSE "done"]

\* app.use((err, req, res, next) => ...): 500 'Something broke!'.
GlobalErrorHandler(q) == [Send(q, Error(500, "something_broke")) EXCEPT !.pc = "done"]

\* The INSERT of acquireLock is rejected by the database (connection lost,
\* table missing). The await is outside the try block, so the promise of the
\* handler rejects: a router that does not look at the promise leaves the
\* rejection to the process; a router that does forwards it to the error
\* middleware.
AcquireLockFails(r) ==
  /\ req[r].pc = "acquire"
  /\ \E forwarded \in BOOLEAN :
       req' = [req EXCEPT ![r] = IF forwarded THEN GlobalErrorHandler(req[r])
                                              ELSE UnhandledRejection(req[r])]
  /\ UNCHANGED <<records, user_locks, companies, bulk, server, oauth>>

\* The DELETE of releaseLock is rejected by the database: the finally block
\* throws after the response was sent, the row stays.
ReleaseLockFails(r) ==
  /\ req[r].pc = "release"
  /\ req' = [req EXCEPT ![r] = UnhandledRejection(req[r])]
  /\ UNCHANGED <<records, user_locks, companies, bulk, server, oauth>>

\* What makes an external call fail: the token is expired or invalid (401),
\* the network or the external system fails (no response, 5xx), the request is
\* rejected for what it says (400).
ErrorKinds == {"auth", "transient", "semantic"}

\* The external call that the invocation awaits (query, patch or create) is
\* rejected with an error of a known kind and has no effect; axios throws, and
\* the catch around the call answers.
ExternalCallFails(r) ==
  /\ req[r].pc \in {"queryOut", "queryIn", "patch", "create"}
  /\ \E kind \in ErrorKinds :
       LET q == [req[r] EXCEPT !.extError = kind] IN
       req' = [req EXCEPT ![r] =
                 CASE q.pc = "queryOut" ->
                        OnQueryOut(Queried(SawActive(q, records), FALSE, NoRecord),
                                   FALSE, NoRecord, records)
                   [] q.pc = "queryIn" ->
                        OnQueryIn(Queried(q, FALSE, NoRecord), FALSE, NoRecord, records)
                   [] q.pc = "patch" ->
                        OnPatch([q EXCEPT !.nPatch = @ + 1], FALSE)
                   [] q.pc = "create" ->
                        OnCreate([q EXCEPT !.nCreate = @ + 1], FALSE, NoRecord)]
  /\ UNCHANGED <<records, user_locks, companies, bulk, server, oauth>>

\* Clock-outs whose clockIn is at the tolerance and one millisecond beyond it,
\* on both sides of a punch-in of T5min, and a clock-in of another subject.
ToleranceRequests ==
  { Body("a@x", Iso(T5min + d), Iso(T10min), TRUE, "EDT") :
      d \in {0 - (ToleranceMs + 1), 0 - ToleranceMs, 0, ToleranceMs, ToleranceMs + 1} }
  \cup { Body("b@x", Iso(T0), NoString, FALSE, "EDT") }

\* The external system holds one active record, punched in at T5min.
InitTolerance ==
  /\ records = << RecordPayload("a@x", T5min, TRUE) >>
  /\ user_locks = [u \in Subjects |-> NoRow]
  /\ companies \in BOOLEAN
  /\ req = [r \in Reqs |-> IdleReq]
  /\ bulk = IdleBulk
  /\ server = Listening
  /\ oauth = IdleOAuth

ReceiveTolerance(r) ==
  /\ server.phase = "listening"
  /\ req[r].pc = "idle"
  /\ \A s \in Reqs : s < r => req[s].pc # "idle"
  /\ \E b \in ToleranceRequests :
       req' = [req EXCEPT ![r] =
                 [IdleReq EXCEPT !.pc = "acquire", !.userId = b.userId,
                                 !.clockIn = b.clockIn, !.clockOut = b.clockOut,
                                 !.isRemote = b.isRemote, !.timezone = b.timezone]]
  /\ UNCHANGED <<records, user_locks, companies, bulk, server, oauth>>

\* Clock-outs of a subject with two active records: the clockIn of the older
\* one, one within the tolerance of the older one, and the clockIn of the most
\* recent one; and a clock-in of the other subject.
SeveralActiveRequests ==
  { Body("a@x", Iso(T0), Iso(T10min), TRUE, "EDT"),
    Body("a@x", Iso(T30s), Iso(T10min), TRUE, "EDT"),
    Body("a@x", Iso(T5min), Iso(T10min), TRUE, "EDT"),
    Body("b@x", Iso(T5min), NoString, FALSE, "EDT") }

\* The external system holds two active records of one subject (written by the
\* bulk endpoint or by an earlier variant) and a closed record of the other.
InitSeveralActive ==
  /\ records = << RecordPayload("a@x", T0, TRUE),
                  RecordPayload("a@x", T5min, FALSE),
                  ApplyPatch(<< RecordPayload("b@x", T0, FALSE) >>, 1, T30s)[1] >>
  /\ user_locks = [u \in Subjects |-> NoRow]
  /\ companies \in BOOLEAN
  /\ req = [r \in Reqs |-> IdleReq]
  /\ bulk = IdleBulk
  /\ server = Listening
  /\ oauth = IdleOAuth

ReceiveSeveralActive(r) ==
  /\ server.phase = "listening"
  /\ req[r].pc = "idle"
  /\ \A s \in Reqs : s < r => req[s].pc # "idle"
  /\ \E b \in SeveralActiveRequests :
       req' = [req EXCEPT ![r] =
                 [IdleReq EXCEPT !.pc = "acquire", !.userId = b.userId,
                                 !.clockIn = b.clockIn, !.clockOut = b.clockOut,
                                 !.isRemote = b.isRemote, !.timezone = b.timezone]]
  /\ UNCHANGED <<records, user_locks, companies, bulk, server, oauth>>

\* Every pair of clockIn and clockOut: instants, unparseable text, absent.
DateStrings == IsoStrings \cup {Garbage, NoString}
AllDateRequests ==
  { Body("a@x", ci, co, TRUE, "EDT") : ci \in DateStrings, co \in DateStrings }

\* A request with any pair of dates arrives at a server that serves no other
\* request.
ReceiveAnyDates(r) ==
  /\ server.phase = "listening"
  /\ \A s \in Reqs : req[s].pc = "idle"
  /\ \A s \in Reqs : r <= s
  /\ \E b \in AllDateRequests :
       req' = [req EXCEPT ![r] =
                 [IdleReq EXCEPT !.pc = "acquire", !.userId = b.userId,
                                 !.clockIn = b.clockIn, !.clockOut = b.clockOut,
                                 !.isRemote = b.isRemote, !.timezone = b.timezone]]
  /\ UNCHANGED <<records, user_locks, companies, bulk, server, oauth>>

\* finally { await releaseLock(userId) }
ReleaseLock(r) ==
  /\ req[r].pc = "release"
  /\ user_locks' = DeleteLock(user_locks, req[r].userId)
  /\ req' = [req EXCEPT ![r].pc = "done"]
  /\ UNCHANGED <<records, companies, bulk, server, oauth>>

\* ------------------------------------------------------------- sync-clock, no lock
\* The earlier variant of the handler: no user_locks, the stored times are
\* locale strings in the request's timezone.
NoLockRequests ==
  { Body("a@x", Iso(T0), NoString, TRUE, "America/New_York"),
    Body("a@x", Iso(T0), NoString, TRUE, "EDT"),
    Body("a@x", Iso(T0), Iso(T5min), TRUE, "UTC"),
    Body("a@x", Iso(T30s), Iso(T10min), TRUE, "UTC"),
    Body("a@x", Iso(T5min), Iso(T10min), TRUE, "UTC"),
    Body("a@x", Iso(T5min), Iso(T0), TRUE, "UTC"),
    Body("a@x", Garbage, NoString, TRUE, "UTC"),
    Body("b@x", Iso(T0), NoString, FALSE, "UTC") }

\* The request arrives; the handler issues the companies query.
NL_Receive(r) ==
  /\ server.phase = "listening"
  /\ req[r].pc = "idle"
  /\ \A s \in Reqs : s < r => req[s].pc # "idle"
  /\ \E b \in NoLockRequests :
       req' = [req EXCEPT ![r] =
                 [IdleReq EXCEPT !.pc = "company", !.userId = b.userId,
                                 !.clockIn = b.clockIn, !.clockOut = b.clockOut,
                                 !.isRemote = b.isRemote, !.timezone = b.timezone]]
  /\ UNCHANGED <<records, user_locks, companies, bulk, server, oauth>>

NL_OnCompany(q, dbOk, hasRow) ==
  LET v == Validate(ClockInDate(q), q.clockOut, ClockOutDate(q)) IN
  IF ~dbOk THEN [Send(q, Error(500, "sync_failed")) EXCEPT !.pc = "done"]
  ELSE IF ~hasRow THEN [Send(q, Error(404, "no_company")) EXCEPT !.pc = "done"]
  ELSE IF v # "ok" THEN [Send(q, Error(400, v)) EXCEPT !.pc = "done"]
  ELSE IF Truthy(q.clockOut) THEN [q EXCEPT !.pc = "queryOut"]
  ELSE [q EXCEPT !.pc = "queryIn"]

NL_GetCompany(r) ==
  /\ req[r].pc = "company"
  /\ \E dbOk \in BOOLEAN :
       req' = [req EXCEPT ![r] =
                 NL_OnCompany([req[r] EXCEPT !.nCompany = @ + 1], dbOk, companies)]
  /\ UNCHANGED <<records, user_locks, companies, bulk, server, oauth>>

\* The handler after the clock-out query. Building the patch body throws a
\* RangeError on an invalid timezone, which the catch answers with 500; with no
\* record found the handler falls through to the final else, 404.
NL_OnQueryOut(q, ok, found, recs) ==
  IF ~ok THEN [Send(q, Error(500, "sync_failed")) EXCEPT !.pc = "done"]
  ELSE IF found # NoRecord
    THEN IF ClockInMismatch(ParseDate(recs[found].Punch_In_Time__c), ClockInDate(q))
           THEN [Send(q, Error(400, "clock_in_mismatch")) EXCEPT !.pc = "done"]
           ELSE IF ~ValidTimeZone(q.timezone)
             THEN [Send(q, Error(500, "sync_failed")) EXCEPT !.pc = "done"]
             ELSE [q EXCEPT !.pc = "patch"]
    ELSE [Send(q, Error(404, "no_active_record")) EXCEPT !.pc = "done"]

NL_QueryOut(r) ==
  /\ req[r].pc = "queryOut"
  /\ \E ok \in BOOLEAN, found \in ActiveQueryResults(records, req[r].userId) :
       req' = [req EXCEPT ![r] =
                 NL_OnQueryOut(Queried(req[r], ok, found), ok, found, records)]
  /\ UNCHANGED <<records, user_locks, companies, bulk, server, oauth>>

NL_ApplyPatch(recs, id, clockOutDate, tz) ==
  [recs EXCEPT ![id].Punch_Out_Time__c = ToLocaleString(clockOutDate, tz)]

NL_OnPatch(q, ok) ==
  IF ok THEN [Send(q, SuccessId("patched", q.rec)) EXCEPT !.pc = "done"]
        ELSE [Send(q, Error(500, "sync_failed")) EXCEPT !.pc = "done"]

NL_Patch(r) ==
  /\ req[r].pc = "patch"
  /\ \E ok \in BOOLEAN :
       /\ records' = IF ok
            THEN NL_ApplyPatch(records, req[r].rec, ClockOutDate(req[r]), req[r].timezone)
            ELSE records
       /\ req' = [req EXCEPT ![r] =
                    NL_OnPatch([req[r] EXCEPT !.nPatch = @ + 1,
                                  !.wrote = IF ok THEN req[r].rec ELSE NoRecord], ok)]
  /\ UNCHANGED <<user_locks, companies, bulk, server, oauth>>

\* WHERE Employee_Email__c = userId AND Punch_Out_Time__c = null LIMIT 1, with
\* no ordering: any active record.
NL_ActiveCheckResults(recs, userId) ==
  IF ActiveIds(recs, userId) = {} THEN {NoRecord} ELSE ActiveIds(recs, userId)

\* The handler after the active-record check: 400 'Already clocked in', or the
\* payload is built (RangeError on an invalid timezone) and the create issued.
NL_OnQueryIn(q, ok, found) ==
  IF ~ok THEN [Send(q, Error(500, "sync_failed")) EXCEPT !.pc = "done"]
  ELSE IF found # NoRecord
    THEN [Send(q, Error(400, "already_clocked_in")) EXCEPT !.pc = "done"]
    ELSE IF ~ValidTimeZone(q.timezone)
      THEN [Send(q, Error(500, "sync_failed")) EXCEPT !.pc = "done"]
      ELSE [q EXCEPT !.pc = "create"]

NL_QueryIn(r) ==
  /\ req[r].pc = "queryIn"
  /\ \E ok \in BOOLEAN, found \in NL_ActiveCheckResults(records, req[r].userId) :
       req' = [req EXCEPT ![r] = NL_OnQueryIn(Queried(req[r], ok, found), ok, found)]
  /\ UNCHANGED <<records, user_locks, companies, bulk, server, oauth>>

NL_RecordPayload(userId, clockInDate, isRemote, tz) ==
  [ Punch_In_Time__c  |-> ToLocaleString(clockInDate, tz),
    Punch_Out_Time__c |-> Null,
    Location_Type__c  |-> LocationType(isRemote),
    Employee_Email__c |-> userId ]

NL_OnCreate(q, ok, newId) ==
  IF ok THEN [Send(q, SuccessId("created", newId)) EXCEPT !.pc = "done"]
        ELSE [Send(q, Error(500, "sync_failed")) EXCEPT !.pc = "done"]

NL_Create(r) ==
  /\ req[r].pc = "create"
  /\ \E ok \in CreateOutcomes(records) :
       LET q == req[r]
           payload == NL_RecordPayload(q.userId, ClockInDate(q), q.isRemote, q.timezone)
       IN /\ records' = IF ok THEN ApplyCreate(records, payload) ELSE records
          /\ req' = [req EXCEPT ![r] =
                       NL_OnCreate([q EXCEPT !.nCreate = @ + 1,
                                      !.wrote = IF ok THEN Len(records') ELSE NoRecord],
                                   ok, Len(records) + 1)]
  /\ UNCHANGED <<user_locks, companies, bulk, server, oauth>>

\* ------------------------------------------------------------- sync-clock, first variant
\* The first variant of the handler: no user_locks, no validation; a clock-out
\* looks for the record by its punch-in and, finding none, falls through to
\* the create.
EV_Requests ==
  { Body("a@x", Iso(T0), NoString, TRUE, "UTC"),
    Body("a@x", Iso(T0), Iso(T5min), TRUE, "UTC"),
    Body("a@x", Iso(T5min), Iso(T10min), TRUE, "UTC"),
    Body("a@x", Iso(T0), Garbage, TRUE, "UTC"),
    Body("a@x", Garbage, NoString, TRUE, "UTC"),
    Body("a@x", Iso(T0), NoString, TRUE, "EDT"),
    Body("b@x", Iso(T0), NoString, FALSE, "UTC") }

\* The request arrives; the handler issues the companies query.
EV_Receive(r) ==
  /\ server.phase = "listening"
  /\ req[r].pc = "idle"
  /\ \A s \in Reqs : s < r => req[s].pc # "idle"
  /\ \E b \in EV_Requests :
       req' = [req EXCEPT ![r] =
                 [IdleReq EXCEPT !.pc = "company", !.userId = b.userId,
                                 !.clockIn = b.clockIn, !.clockOut = b.clockOut,
                                 !.isRemote = b.isRemote, !.timezone = b.timezone]]
  /\ UNCHANGED <<records, user_locks, companies, bulk, server, oauth>>

\* The handler from the point where it knows whether a record is to be
\* patched: clockOutDate.toISOString() (patch body) and
\* clockOutDate?.toISOString() (create payload) throw on an invalid Date.
EV_Decide(q, found) ==
  IF Truthy(q.clockOut) /\ IsNaN(ClockOutDate(q))
    THEN [Send(q, Error(500, "sync_failed")) EXCEPT !.pc = "done"]
  ELSE IF found # NoRecord THEN [q EXCEPT !.pc = "patch"]
  ELSE [q EXCEPT !.pc = "create"]

\* The handler after the companies query: toLocaleDateString throws on an
\* invalid timezone, clockInDate.toISOString() on an invalid Date.
EV_OnCompany(q, dbOk, hasRow) ==
  IF ~dbOk THEN [Send(q, Error(500, "sync_failed")) EXCEPT !.pc = "done"]
  ELSE IF ~hasRow THEN [Send(q, Error(404, "no_company")) EXCEPT !.pc = "done"]
  ELSE IF ~ValidTimeZone(q.timezone) \/ IsNaN(ClockInDate(q))
    THEN [Send(q, Error(500, "sync_failed")) EXCEPT !.pc = "done"]
  ELSE IF Truthy(q.clockOut) THEN [q EXCEPT !.pc = "queryOut"]
  ELSE EV_Decide(q, NoRecord)

EV_GetCompany(r) ==
  /\ req[r].pc = "company"
  /\ \E dbOk \in BOOLEAN :
       req' = [req EXCEPT ![r] =
                 EV_OnCompany([req[r] EXCEPT !.nCompany = @ + 1], dbOk, companies)]
  /\ UNCHANGED <<records, user_locks, companies, bulk, server, oauth>>

\* WHERE Employee_Email__c = userId AND Punch_In_Time__c = <clockIn>
\* ORDER BY CreatedDate DESC LIMIT 1: the latest created such record, or
\* NoRecord.
EV_QueryResult(recs, userId, clockInDate) ==
  LET match == { i \in 1..Len(recs) :
                   /\ recs[i].Employee_Email__c = userId
                   /\ ParseDate(recs[i].Punch_In_Time__c) = clockInDate }
  IN IF match = {} THEN NoRecord
     ELSE CHOOSE i \in match : \A j \in match : j <= i

EV_OnQueryOut(q, ok, found) ==
  IF ~ok THEN [Send(q, Error(500, "sync_failed")) EXCEPT !.pc = "done"]
  ELSE EV_Decide(q, found)

EV_QueryOut(r) ==
  /\ req[r].pc = "queryOut"
  /\ \E ok \in BOOLEAN :
       LET found == EV_QueryResult(records, req[r].userId, ClockInDate(req[r])) IN
       req' = [req EXCEPT ![r] =
                 EV_OnQueryOut(Queried(SawActive(req[r], records), ok, found),
                               ok, found)]
  /\ UNCHANGED <<records, user_locks, companies, bulk, server, oauth>>

EV_Patch(r) ==
  /\ req[r].pc = "patch"
  /\ \E ok \in BOOLEAN :
       /\ records' = IF ok THEN ApplyPatch(records, req[r].rec, ClockOutDate(req[r]))
                           ELSE records
       /\ req' = [req EXCEPT ![r] =
                    NL_OnPatch([req[r] EXCEPT !.nPatch = @ + 1,
                                  !.wrote = IF ok THEN req[r].rec ELSE NoRecord], ok)]
  /\ UNCHANGED <<user_locks, companies, bulk, server, oauth>>

\* Punch_Out_Time__c: clockOutDate?.toISOString(), absent for a clock-in.
EV_RecordPayload(userId, clockInDate, clockOut, clockOutDate, isRemote) ==
  [ Punch_In_Time__c  |-> ToISOString(clockInDate),
    Punch_Out_Time__c |-> IF Truthy(clockOut) THEN ToISOString(clockOutDate) ELSE Null,
    Location_Type__c  |-> LocationType(isRemote),
    Employee_Email__c |-> userId ]

EV_Create(r) ==
  /\ req[r].pc = "create"
  /\ \E ok \in CreateOutcomes(records) :
       LET q == req[r]
           payload == EV_RecordPayload(q.userId, ClockInDate(q), q.clockOut,
                                       ClockOutDate(q), q.isRemote)
       IN /\ records' = IF ok THEN ApplyCreate(records, payload) ELSE records
          /\ req' = [req EXCEPT ![r] =
                       NL_OnCreate([q EXCEPT !.nCreate = @ + 1,
                                      !.wrote = IF ok THEN Len(records') ELSE NoRecord],
                                   ok, Len(records) + 1)]
  /\ UNCHANGED <<user_locks, companies, bulk, server, oauth>>

\* ------------------------------------------------------------- sync-user
BulkRecords ==
  { [clockIn |-> Iso(T0), clockOut |-> Null, isRemote |-> TRUE],
    [clockIn |-> Iso(T30s), clockOut |-> Null, isRemote |-> FALSE],
    [clockIn |-> Iso(T0), clockOut |-> Iso(T5min), isRemote |-> FALSE] }

BulkLists == UNION { [1..n -> BulkRecords] : n \in 0..MaxBulkLen }

BulkPayload(id, record) ==
  [ Punch_In_Time__c  |-> record.clockIn,
    Punch_Out_Time__c |-> record.clockOut,
    Location_Type__c  |-> LocationType(record.isRemote),
    Employee_Email__c |-> id ]

\* The request arrives; the handler issues tokenHelpers.getTokens().
BulkReceive ==
  /\ server.phase = "listening"
  /\ bulk.pc = "idle"
  /\ \E id \in Subjects, list \in BulkLists :
       bulk' = [IdleBulk EXCEPT !.pc = "tokens", !.id = id, !.clockRecords = list]
  /\ UNCHANGED <<records, user_locks, companies, req, server, oauth>>

\* The handler after getTokens(), up to the first create of the loop.
OnTokens(b, dbOk, hasRow) ==
  IF ~dbOk THEN [b EXCEPT !.resp = Error(500, "sync_user_failed"), !.pc = "done"]
  ELSE IF ~hasRow THEN [b EXCEPT !.resp = Error(404, "no_connection"), !.pc = "done"]
  ELSE IF Len(b.clockRecords) = 0
    THEN [b EXCEPT !.resp = Success("synced"), !.pc = "done"]
    ELSE [b EXCEPT !.pc = "post"]

BulkGetTokens ==
  /\ bulk.pc = "tokens"
  /\ \E dbOk \in BOOLEAN : bulk' = OnTokens(bulk, dbOk, companies)
  /\ UNCHANGED <<records, user_locks, companies, req, server, oauth>>

\* Mutant: a create that failed is skipped and the loop goes on.
OnBulkPost_SkipFailed(b, ok) ==
  IF b.i = Len(b.clockRecords)
    THEN [b EXCEPT !.i = @ + 1, !.pc = "done",
                   !.resp = IF ok THEN Success("synced")
                                  ELSE Error(500, "sync_user_failed")]
    ELSE [b EXCEPT !.i = @ + 1]

\* The handler after the create of element i: the next element, 200 after the
\* last, or the catch.
OnBulkPost(b, ok) ==
  IF ~ok THEN [b EXCEPT !.resp = Error(500, "sync_user_failed"), !.pc = "done"]
  ELSE IF b.i = Len(b.clockRecords)
    THEN [b EXCEPT !.i = @ + 1, !.resp = Success("synced"), !.pc = "done"]
    ELSE [b EXCEPT !.i = @ + 1]

BulkPost ==
  /\ bulk.pc = "post"
  /\ \E ok \in CreateOutcomes(records) :
       /\ records' = IF ok
            THEN ApplyCreate(records, BulkPayload(bulk.id, bulk.clockRecords[bulk.i]))
            ELSE records
       /\ bulk' = OnBulkPost([bulk EXCEPT !.wrote = IF ok THEN Append(@, Len(records) + 1)
                                                       ELSE @], ok)
  /\ UNCHANGED <<user_locks, companies, req, server, oauth>>

\* ------------------------------------------------------------- authorization
\* INSERT INTO companies ... ON CONFLICT (organization_code) DO UPDATE SET
\* company_name, company_domain and the three token columns. The rows are kept
\* in the order of created_at, which an update leaves alone.
StoreTokens(rows, companyName, companyDomain, organizationCode, tokens) ==
  IF \E i \in 1..Len(rows) : rows[i].organization_code = organizationCode
    THEN [i \in 1..Len(rows) |->
            IF rows[i].organization_code = organizationCode
              THEN [rows[i] EXCEPT !.company_name = companyName,
                                   !.company_domain = companyDomain,
                                   !.tokens = tokens]
              ELSE rows[i]]
    ELSE Append(rows, [ organization_code |-> organizationCode,
                        company_name |-> companyName,
                        company_domain |-> companyDomain,
                        tokens |-> tokens ])

\* SELECT * FROM companies WHERE organization_code = $1: the row, or null.
GetTokensByOrganizationCode(rows, organizationCode) ==
  IF \E i \in 1..Len(rows) : rows[i].organization_code = organizationCode
    THEN rows[CHOOSE i \in 1..Len(rows) : rows[i].organization_code = organizationCode]
    ELSE NoCompany

\* SELECT organization_code FROM companies ORDER BY created_at DESC LIMIT 1
GetLatestOrganizationCode(rows) ==
  IF Len(rows) = 0 THEN NoCode ELSE rows[Len(rows)].organization_code

\* Date.now(): the millisecond of the last reading or a later one; the clock
\* is followed over as many milliseconds as there are flows.
DateNow(last) == last..MaxFlows

\* POST /api/connect-salesforce arrives: 400 without companyDomain; otherwise
\* the organization code is made and storeTokens issued with null tokens.
OnConnect(c, hasDomain, now) ==
  IF ~hasDomain THEN [c EXCEPT !.status = 400, !.pc = "done"]
  ELSE [c EXCEPT !.organizationCode = OrgCode(now), !.pc = "store"]

\* The flows are numbered in the order in which their connect calls arrive.
Connect(f) ==
  /\ server.phase = "listening"
  /\ ConnectOf(f).pc = "idle"
  /\ \A g \in Flows : g < f => ConnectOf(g).pc # "idle"
  /\ \E hasDomain \in BOOLEAN, now \in DateNow(oauth.now) :
       oauth' = [oauth EXCEPT !.now = IF hasDomain THEN now ELSE @,
                              !.connect = Put(@, f, OnConnect(ConnectOf(f), hasDomain, now))]
  /\ UNCHANGED <<records, user_locks, companies, req, bulk, server>>

\* storeTokens resolved: 200 with the organization code; or the catch.
OnConnectStored(c, ok) ==
  IF ok THEN [c EXCEPT !.status = 200, !.pc = "done"]
        ELSE [c EXCEPT !.status = 500, !.pc = "done"]

ConnectStore(f) ==
  /\ ConnectOf(f).pc = "store"
  /\ \E ok \in BOOLEAN :
       oauth' = [oauth EXCEPT
         !.rows = IF ok THEN StoreTokens(@, DomainPrefix(DomainOf(f)), DomainOf(f),
                                         ConnectOf(f).organizationCode, NullTokens)
                        ELSE @,
         !.connect = Put(@, f, OnConnectStored(ConnectOf(f), ok))]
  /\ UNCHANGED <<records, user_locks, companies, req, bulk, server>>

\* The organization code the client of flow f holds: the one its connect call
\* returned, if it has returned.
Returned(c) == IF c.pc = "done" /\ c.status = 200 THEN c.organizationCode ELSE NoCode

\* GET /api/callback arrives: 400 without a code; otherwise the token request
\* is issued.
OnCallback(b, hasCode, initiated) ==
  IF ~hasCode THEN [b EXCEPT !.status = 400, !.pc = "done"]
  ELSE [b EXCEPT !.pc = "exchange", !.initiated = initiated]

Callback(f) ==
  /\ server.phase = "listening"
  /\ CallbackOf(f).pc = "idle"
  /\ \E hasCode \in BOOLEAN :
       oauth' = [oauth EXCEPT
         !.callback = Put(@, f, OnCallback([CallbackOf(f) EXCEPT !.hasCode = hasCode],
                                            hasCode, Returned(ConnectOf(f))))]
  /\ UNCHANGED <<records, user_locks, companies, req, bulk, server>>

\* What the token endpoint answers for the code of flow f: the three values,
\* or a response in which one of them is missing.
ExchangeResponses(f) ==
  { IssuedTokens(f),
    [IssuedTokens(f) EXCEPT !.access_token = Null],
    [IssuedTokens(f) EXCEPT !.refresh_token = Null],
    [IssuedTokens(f) EXCEPT !.instance_url = Null] }

\* Mutant: a response without refresh_token or instance_url is accepted.
OnExchange_AccessOnly(b, ok, data) ==
  IF ~ok THEN [b EXCEPT !.status = 500, !.pc = "done"]
  ELSE IF data.access_token = Null
    THEN [b EXCEPT !.status = 500, !.pc = "done"]
  ELSE [b EXCEPT !.tokens = data, !.pc = "latest"]

\* The handler after the token request: the catch, 500 'Invalid response', or
\* getLatestOrganizationCode() issued.
OnExchange(b, ok, data) ==
  IF ~ok THEN [b EXCEPT !.status = 500, !.pc = "done"]
  ELSE IF data.access_token = Null \/ data.refresh_token = Null \/ data.instance_url = Null
    THEN [b EXCEPT !.status = 500, !.pc = "done"]
  ELSE [b EXCEPT !.tokens = data, !.pc = "latest"]

CallbackExchange(f) ==
  /\ CallbackOf(f).pc = "exchange"
  /\ \E ok \in BOOLEAN, data \in ExchangeResponses(f) :
       oauth' = [oauth EXCEPT
         !.callback = Put(@, f, OnExchange([CallbackOf(f) EXCEPT !.nExchange = @ + 1,
                                              !.got = IF ok THEN Answered(data)
                                                            ELSE ExchangeFailed],
                                    ok, data))]
  /\ UNCHANGED <<records, user_locks, companies, req, bulk, server>>

\* The handler after getLatestOrganizationCode(): no row, a new organization
\* is stored under a code made now; otherwise the row of the latest code is
\* read.
OnLatest(b, ok, latest, now) ==
  IF ~ok THEN [b EXCEPT !.status = 500, !.pc = "done"]
  ELSE IF latest = NoCode
    THEN [b EXCEPT !.organizationCode = OrgCode(now),
                   !.companyInfo = [NoCompany EXCEPT !.company_name = DefaultCompanyName,
                                                     !.company_domain = DefaultDomain],
                   !.pc = "store"]
  ELSE [b EXCEPT !.organizationCode = latest, !.pc = "info"]

CallbackLatest(f) ==
  /\ CallbackOf(f).pc = "latest"
  /\ \E ok \in BOOLEAN,
        now \in IF GetLatestOrganizationCode(oauth.rows) = NoCode
                  THEN DateNow(oauth.now) ELSE {oauth.now} :
       oauth' = [oauth EXCEPT
         !.now = now,
         !.callback = Put(@, f, OnLatest(CallbackOf(f), ok,
                                         GetLatestOrganizationCode(oauth.rows), now))]
  /\ UNCHANGED <<records, user_locks, companies, req, bulk, server>>

\* The handler after getTokensByOrganizationCode(): 500 'Company information
\* not found', or storeTokens issued with the row's name and domain.
OnCompanyInfo(b, ok, info) ==
  IF ~ok THEN [b EXCEPT !.status = 500, !.pc = "done"]
  ELSE IF info = NoCompany
    THEN [b EXCEPT !.status = 500, !.pc = "done"]
  ELSE [b EXCEPT !.companyInfo = info, !.pc = "store"]

CallbackInfo(f) ==
  /\ CallbackOf(f).pc = "info"
  /\ \E ok \in BOOLEAN :
       oauth' = [oauth EXCEPT
         !.callback = Put(@, f, OnCompanyInfo(CallbackOf(f), ok,
            GetTokensByOrganizationCode(oauth.rows, CallbackOf(f).organizationCode)))]
  /\ UNCHANGED <<records, user_locks, companies, req, bulk, server>>

\* storeTokens resolved: 'Salesforce successfully connected!'; or the catch.
OnCallbackStored(b, ok) ==
  IF ok THEN [b EXCEPT !.status = 200, !.pc = "done", !.storedUnder = b.organizationCode]
        ELSE [b EXCEPT !.status = 500, !.pc = "done"]

CallbackStore(f) ==
  /\ CallbackOf(f).pc = "store"
  /\ \E ok \in BOOLEAN :
       LET b == CallbackOf(f) IN
       oauth' = [oauth EXCEPT
         !.rows = IF ok THEN StoreTokens(@, b.companyInfo.company_name,
                                         b.companyInfo.company_domain,
                                         b.organizationCode, b.tokens)
                        ELSE @,
         !.callback = Put(@, f, OnCallbackStored([b EXCEPT !.nStore = @ + 1], ok))]
  /\ UNCHANGED <<records, user_locks, companies, req, bulk, server>>

\* GET /api/verify-salesforce-connection with the organization code the
\* client holds and its domain: connected when the row exists and its domain
\* is the client's.
OnVerify(v, ok, tokens, companyDomain) ==
  IF ~ok THEN [v EXCEPT !.status = 500, !.connected = FALSE, !.pc = "done"]
  ELSE IF tokens = NoCompany \/ tokens.company_domain # companyDomain
    THEN [v EXCEPT !.status = 200, !.connected = FALSE, !.pc = "done"]
  ELSE [v EXCEPT !.status = 200, !.connected = TRUE, !.pc = "done",
                 !.hadToken = tokens.tokens.access_token # Null]

Verify(f) ==
  /\ server.phase = "listening"
  /\ VerifyOf(f).pc = "idle"
  /\ Returned(ConnectOf(f)) # NoCode
  /\ \E ok \in BOOLEAN :
       oauth' = [oauth EXCEPT
         !.verify = Put(@, f, OnVerify(VerifyOf(f), ok,
            GetTokensByOrganizationCode(oauth.rows, Returned(ConnectOf(f))),
            DomainOf(f)))]
  /\ UNCHANGED <<records, user_locks, companies, req, bulk, server>>

\* ------------------------------------------------------------- environment
\* The process dies (process.exit, host restart): every invocation in flight
\* is abandoned where it stands; the tables and the external records persist.
Abandon(q) == IF InFlight(q) THEN [q EXCEPT !.pc = "crashed"] ELSE q

Crash ==
  /\ \E r \in Reqs : InFlight(req[r])
  /\ req' = [r \in Reqs |-> Abandon(req[r])]
  /\ bulk' = IF bulk.pc \in {"tokens", "post"} THEN [bulk EXCEPT !.pc = "crashed"]
             ELSE bulk
  /\ UNCHANGED <<records, user_locks, companies, server, oauth>>

\* Time passes: a lock row's created_at falls behind NOW() by more than the
\* staleness threshold.
LockAges(u) ==
  /\ user_locks[u] # NoRow
  /\ ~user_locks[u].stale
  /\ user_locks' = [user_locks EXCEPT ![u].stale = TRUE]
  /\ UNCHANGED <<records, companies, req, bulk, server, oauth>>

\* ------------------------------------------------------------- specification
Step(r) ==
  \/ AcquireLock(r)
  \/ GetCompany(r)
  \/ QueryOut(r)
  \/ Patch(r)
  \/ QueryIn(r)
  \/ Create(r)
  \/ ReleaseLock(r)

Next ==
  \/ \E r \in Reqs : Receive(r)
  \/ \E r \in Reqs : Step(r)

Spec == Init /\ [][Next]_vars

\* The handler in a process that can die, with time passing over the lock rows.
NextCrash ==
  \/ \E r \in Reqs : Receive(r)
  \/ \E r \in Reqs : Step(r)
  \/ Crash
  \/ \E u \in Subjects : LockAges(u)

SpecCrash == Init /\ [][NextCrash]_vars

\* POST /api/sync-user beside the sync-clock invocations.
NextSyncUser ==
  \/ \E r \in Reqs : Receive(r)
  \/ \E r \in Reqs : Step(r)
  \/ BulkReceive
  \/ BulkGetTokens
  \/ BulkPost

SpecSyncUser == Init /\ [][NextSyncUser]_vars

\* POST /api/sync-user beside one sync-clock invocation.
NextBulk ==
  \/ \E r \in {1} : Receive(r)
  \/ \E r \in {1} : Step(r)
  \/ BulkReceive
  \/ BulkGetTokens
  \/ BulkPost

SpecBulk == Init /\ [][NextBulk]_vars

\* The multi-organization variant: connect, callback and verify of each flow.
NextOAuth ==
  \/ \E f \in Flows : Connect(f)
  \/ \E f \in Flows : ConnectStore(f)
  \/ \E f \in Flows : Callback(f)
  \/ \E f \in Flows : CallbackExchange(f)
  \/ \E f \in Flows : CallbackLatest(f)
  \/ \E f \in Flows : CallbackInfo(f)
  \/ \E f \in Flows : CallbackStore(f)
  \/ \E f \in Flows : Verify(f)

\* The server is up, nothing is stored and nothing has been called.
InitOAuth ==
  /\ records = <<>>
  /\ user_locks = [u \in Subjects |-> NoRow]
  /\ companies = FALSE
  /\ req = [r \in Reqs |-> IdleReq]
  /\ bulk = IdleBulk
  /\ server = Listening
  /\ oauth = IdleOAuth

SpecOAuth == InitOAuth /\ [][NextOAuth]_vars

\* The connect call of the first flow has stored its row and returned.
AfterConnect ==
  [IdleOAuth EXCEPT
     !.connect = Put(@, 1, OnConnectStored(OnConnect(IdleConnect, TRUE, IdleOAuth.now),
                                          TRUE)),
     !.rows = StoreTokens(<<>>, DomainPrefix(DomainOf(1)), DomainOf(1),
                          OrgCode(IdleOAuth.now), NullTokens)]

\* The table companies is empty, or holds the row of one connect call.
InitCallback ==
  /\ records = <<>>
  /\ user_locks = [u \in Subjects |-> NoRow]
  /\ companies = FALSE
  /\ req = [r \in Reqs |-> IdleReq]
  /\ bulk = IdleBulk
  /\ server = Listening
  /\ oauth \in {IdleOAuth, AfterConnect}

\* The callbacks alone.
NextCallback ==
  \/ \E f \in Flows : Callback(f)
  \/ \E f \in Flows : CallbackExchange(f)
  \/ \E f \in Flows : CallbackLatest(f)
  \/ \E f \in Flows : CallbackInfo(f)
  \/ \E f \in Flows : CallbackStore(f)

SpecCallback == InitCallback /\ [][NextCallback]_vars

\* The variant of the handler without the lock.
NL_Step(r) ==
  \/ NL_GetCompany(r)
  \/ NL_QueryOut(r)
  \/ NL_Patch(r)
  \/ NL_QueryIn(r)
  \/ NL_Create(r)

NextNoLock ==
  \/ \E r \in Reqs : NL_Receive(r)
  \/ \E r \in Reqs : NL_Step(r)

SpecNoLock == Init /\ [][NextNoLock]_vars

\* The locked handler against an external system whose answers can get lost.
NextLossy ==
  \/ \E r \in Reqs : Receive(r)
  \/ \E r \in Reqs : Step(r)
  \/ \E r \in Reqs : PatchLost(r)
  \/ \E r \in Reqs : CreateLost(r)

SpecLossy == Init /\ [][NextLossy]_vars

\* The locked handler against a database that can reject the statements on
\* user_locks.
StepLockFail(r) ==
  \/ Step(r)
  \/ AcquireLockFails(r)
  \/ ReleaseLockFails(r)

NextLockFail ==
  \/ \E r \in Reqs : Receive(r)
  \/ \E r \in Reqs : StepLockFail(r)

SpecLockFail == Init /\ [][NextLockFail]_vars

\* Every call awaited by an invocation completes or fails.
FairSpecLockFail == SpecLockFail /\ \A r \in Reqs : WF_vars(StepLockFail(r))

\* The locked handler, the failures of the external calls told apart by kind.
NextErrorKinds ==
  \/ \E r \in Reqs : Receive(r)
  \/ \E r \in Reqs : Step(r)
  \/ \E r \in Reqs : ExternalCallFails(r)

SpecErrorKinds == Init /\ [][NextErrorKinds]_vars

\* The locked handler from the start of the process.
NextStartup ==
  \/ InitDb
  \/ \E r \in Reqs : Receive(r)
  \/ \E r \in Reqs : Step(r)

SpecStartup == InitStartup /\ [][NextStartup]_vars

\* The locked handler, clock-outs around the tolerance.
NextTolerance ==
  \/ \E r \in Reqs : ReceiveTolerance(r)
  \/ \E r \in Reqs : Step(r)

SpecTolerance == InitTolerance /\ [][NextTolerance]_vars

\* The locked handler, a subject with two active records.
NextSeveralActive ==
  \/ \E r \in Reqs : ReceiveSeveralActive(r)
  \/ \E r \in Reqs : Step(r)

SpecSeveralActive == InitSeveralActive /\ [][NextSeveralActive]_vars

\* One invocation of the locked handler, over every pair of dates.
NextValidation ==
  \/ \E r \in Reqs : ReceiveAnyDates(r)
  \/ \E r \in Reqs : Step(r)

SpecValidation == Init /\ [][NextValidation]_vars

\* The first variant of the handler.
EV_Step(r) ==
  \/ EV_GetCompany(r)
  \/ EV_QueryOut(r)
  \/ EV_Patch(r)
  \/ EV_Create(r)

NextEarly ==
  \/ \E r \in Reqs : EV_Receive(r)
  \/ \E r \in Reqs : EV_Step(r)

SpecEarly == Init /\ [][NextEarly]_vars

\* Every invocation in flight is resumed when the call it awaits completes.
FairSpec == Spec /\ \A r \in Reqs : WF_vars(Step(r))

\* ------------------------------------------------------------- properties
NoWrites(q) == q.nCreate = 0 /\ q.nPatch = 0 /\ q.wrote = NoRecord

IsClockOut(q) == q.pc # "idle" /\ Truthy(q.clockOut)
IsClockIn(q) == q.pc # "idle" /\ ~Truthy(q.clockOut)

\* C1: the external record set holds at most one record per subject whose
\* punch-out is null.
C1_AtMostOneActive ==
  \A u \in Subjects : Cardinality(ActiveIds(records, u)) <= 1

\* C2: for every subject at most one invocation is between its successful
\* acquireLock and its releaseLock; an invocation that found the subject's lock
\* row taken lost to another invocation of that subject, which did acquire, and
\* the loser issued no external query and no external write.
C2_LockMutualExclusion ==
  /\ \A r1, r2 \in Reqs :
       (r1 # r2 /\ Holding(req[r1]) /\ Holding(req[r2]))
         => req[r1].userId # req[r2].userId
  /\ \A r \in Reqs :
       req[r].blockedBy # NoLock =>
         LET h == req[r].blockedBy IN
         /\ h # r
         /\ req[h].userId = req[r].userId
         /\ req[h].lockId = h
         /\ req[r].lockId = NoLock
         /\ req[r].nQuery = 0
         /\ NoWrites(req[r])

C2_Witness ==
  \E r1, r2 \in Reqs :
    /\ Holding(req[r1]) /\ req[r1].nQuery = 1
    /\ req[r2].blockedBy = r1 /\ req[r2].pc = "done"

\* C3: an invocation whose acquireLock returned no lock is answered once, with
\* HTTP 200 and success = true, and did no credential lookup, no external
\* query and no external write.
C3_ContentionIsSuccessfulNoOp ==
  \A r \in Reqs :
    req[r].blockedBy # NoLock =>
      /\ req[r].pc = "done"
      /\ req[r].nResp = 1
      /\ req[r].resp.status = 200
      /\ req[r].resp.success
      /\ req[r].resp.kind = "in_progress"
      /\ req[r].nCompany = 0
      /\ req[r].nQuery = 0
      /\ NoWrites(req[r])

C3_Witness ==
  \E r \in Reqs :
    /\ req[r].blockedBy # NoLock
    /\ req[r].resp.status = 200
    /\ req[req[r].blockedBy].pc = "company"

\* C5: an acquireLock that finds the subject's lock row abandoned by a crashed
\* holder and older than the staleness threshold acquires the lock.
C5_StaleLockAcquirable ==
  \A r \in Reqs :
    (req[r].pc \notin {"idle", "acquire"} /\ req[r].sawStale /\ req[r].sawAbandoned)
      => req[r].lockId # NoLock

\* C6 as claimed: a clock-out that met the lock of a clock-in of its subject is
\* not dropped: when it is done it has held the lock and has been processed.
C6_ClockOutWaitsForClockIn ==
  \A r \in Reqs :
    ( /\ IsClockOut(req[r])
      /\ req[r].blockedBy # NoLock
      /\ IsClockIn(req[req[r].blockedBy])
      /\ req[r].pc = "done" )
      => (req[r].lockId # NoLock /\ req[r].nCompany >= 1)

CriticalPcs == {"company", "queryOut", "patch", "queryIn", "create"}

\* C6 as amended: a clock-out that meets the lock of a clock-in of its subject
\* does not wait: it is answered at once with 200 'already being processed' and
\* is dropped (no lock, no query, no patch); two invocations of one subject are
\* never both inside the try block.
C6_ClockOutDroppedNotRaced ==
  /\ \A r \in Reqs :
       ( /\ IsClockOut(req[r])
         /\ req[r].blockedBy # NoLock
         /\ IsClockIn(req[req[r].blockedBy]) )
         => /\ req[r].pc = "done"
            /\ req[r].resp = Success("in_progress")
            /\ req[r].lockId = NoLock
            /\ req[r].nQuery = 0
            /\ NoWrites(req[r])
  /\ \A r1, r2 \in Reqs :
       (r1 # r2 /\ req[r1].userId = req[r2].userId /\ req[r1].pc \in CriticalPcs)
         => req[r2].pc \notin CriticalPcs

C6_Witness ==
  \E r, h \in Reqs :
    /\ IsClockOut(req[r]) /\ req[r].blockedBy = h /\ req[r].pc = "done"
    /\ IsClockIn(req[h]) /\ req[h].pc = "create"

\* C4: every invocation that acquired the lock deletes the subject's lock row
\* on whichever path it leaves the handler: once it has answered, only the
\* release is left; under fair scheduling a state in which no invocation is
\* between its acquireLock and the end of its releaseLock is reached again and
\* again, so every holder releases; when it is done its row is gone; and when
\* no invocation is in flight, no lock row remains.
C4_ReleaseOnEveryExit ==
  /\ []<>(\A r \in Reqs : ~Holding(req[r]))
  /\ [](\A r \in Reqs :
          (Holding(req[r]) /\ req[r].nResp >= 1) => req[r].pc = "release")
  /\ [](\A r \in Reqs :
          (req[r].pc = "done" /\ req[r].lockId # NoLock)
            => user_locks[req[r].userId].lock_id # r)
  /\ []((\A r \in Reqs : req[r].pc \in {"idle", "done"})
          => \A u \in Subjects : user_locks[u] = NoRow)

C4_Witness ==
  /\ \A r \in Reqs : req[r].pc = "done" /\ req[r].lockId = r
  /\ \E r \in Reqs : req[r].resp.kind = "no_active_record"
  /\ \E r \in Reqs : req[r].resp.kind = "create_failed"
  /\ \A u \in Subjects : user_locks[u] = NoRow

C5_Witness ==
  \E r \in Reqs :
    req[r].sawStale /\ req[r].sawAbandoned /\ req[r].resp.kind = "in_progress"

WithinTolerance(existingClockIn, clockInDate) ==
  /\ existingClockIn - clockInDate <= ToleranceMs
  /\ clockInDate - existingClockIn <= ToleranceMs

\* C7: a clock-in whose query, made while it holds the lock, found no active
\* record issues the create; an accepted create is the invocation's only write,
\* adds exactly one record, of the request's subject and punch-in and with a
\* null punch-out, and the answer is 200 success with the id of that record.
C7_ClockInCreate ==
  [][\A r \in Reqs :
       /\ (req[r].pc = "queryIn" /\ req'[r].queried = "empty")
            => /\ req'[r].pc = "create"
               /\ NoWrites(req'[r])
               /\ user_locks[req[r].userId].lock_id = r
       /\ (req[r].pc = "create" /\ req'[r].wrote # NoRecord)
            => /\ req[r].queried = "empty"
               /\ user_locks[req[r].userId].lock_id = r
               /\ Len(records') = Len(records) + 1
               /\ SubSeq(records', 1, Len(records)) = records
               /\ records'[Len(records')].Employee_Email__c = req[r].userId
               /\ records'[Len(records')].Punch_Out_Time__c = Null
               /\ ParseDate(records'[Len(records')].Punch_In_Time__c)
                    = ParseDate(req[r].clockIn)
               /\ req'[r].nCreate = 1
               /\ req'[r].nPatch = 0
               /\ req'[r].nResp = 1
               /\ req'[r].resp.status = 200
               /\ req'[r].resp.success
               /\ req'[r].resp.id = Len(records')
               /\ req'[r].wrote = Len(records')
    ]_vars

C7_Witness ==
  \E r \in Reqs :
    /\ req[r].resp.kind = "created"
    /\ req[r].queried = "empty"
    /\ req[r].wrote = Len(records)
    /\ records[req[r].wrote].Punch_Out_Time__c = Null

\* C8: a clock-in whose query found an active record of its subject is
\* answered 200 success with that record's id, punch-in and location, and
\* issues no create and no patch.
C8_AlreadyActiveIsSuccess ==
  \A r \in Reqs :
    (IsClockIn(req[r]) /\ req[r].queried = "found")
      => /\ req[r].resp.status = 200
         /\ req[r].resp.success
         /\ req[r].resp.id = req[r].rec
         /\ req[r].resp.punchInTime = records[req[r].rec].Punch_In_Time__c
         /\ req[r].resp.locationType = records[req[r].rec].Location_Type__c
         /\ req[r].nResp = 1
         /\ NoWrites(req[r])

\* C9: a clock-out whose query found the subject's active record with a
\* punch-in within the tolerance of the request's clockIn issues the patch; an
\* accepted patch is the invocation's only write, sets the punch-out of that
\* record, still active, to the request's clockOut and changes nothing else,
\* and the answer is 200 success with that record's id.
C9_MatchWithinTolerance ==
  [][\A r \in Reqs :
       /\ ( /\ req[r].pc = "queryOut"
            /\ req'[r].queried = "found"
            /\ WithinTolerance(ParseDate(records[req'[r].rec].Punch_In_Time__c),
                               ParseDate(req[r].clockIn)) )
            => (req'[r].pc = "patch" /\ NoWrites(req'[r]))
       /\ (req[r].pc = "patch" /\ req'[r].wrote # NoRecord)
            => /\ req'[r].wrote = req[r].rec
               /\ records[req[r].rec].Employee_Email__c = req[r].userId
               /\ records[req[r].rec].Punch_Out_Time__c = Null
               /\ records' = [records EXCEPT
                                ![req[r].rec].Punch_Out_Time__c = req[r].clockOut]
               /\ req'[r].nPatch = 1
               /\ req'[r].nCreate = 0
               /\ req'[r].nResp = 1
               /\ req'[r].resp.status = 200
               /\ req'[r].resp.success
               /\ req'[r].resp.id = req[r].rec
    ]_vars

C9_Witness ==
  \E r \in Reqs :
    /\ req[r].resp.kind = "patched"
    /\ ParseDate(req[r].clockIn) = T30s
    /\ ParseDate(records[req[r].wrote].Punch_In_Time__c) = T0
    /\ records[req[r].wrote].Punch_Out_Time__c = req[r].clockOut

\* C10: a clock-out whose query found an active record with a punch-in more
\* than the tolerance away from the request's clockIn is answered 400 clock-in
\* mismatch and issues no patch and no create.
C10_MismatchRejected ==
  \A r \in Reqs :
    ( /\ IsClockOut(req[r])
      /\ req[r].queried = "found"
      /\ ~WithinTolerance(ParseDate(records[req[r].rec].Punch_In_Time__c),
                          ParseDate(req[r].clockIn)) )
      => /\ req[r].resp.status = 400
         /\ ~req[r].resp.success
         /\ req[r].resp.kind = "clock_in_mismatch"
         /\ req[r].nResp = 1
         /\ req[r].pc \in {"release", "done", "crashed"}
         /\ NoWrites(req[r])

C10_Witness ==
  \E r \in Reqs :
    /\ req[r].resp.kind = "clock_in_mismatch"
    /\ ParseDate(req[r].clockIn) = T5min
    /\ ParseDate(records[req[r].rec].Punch_In_Time__c) = T0
    /\ records[req[r].rec].Punch_Out_Time__c = Null

\* C11: a clock-out whose subject had no active record when the handler
\* looked for the record to update is, once answered, answered 404 'no active
\* record', once, and has issued no create and no patch; the record set holds
\* no record that a clock-out request created with its clockIn and clockOut.
C11_NoActiveRecordRejected ==
  \A r \in Reqs :
    ( /\ IsClockOut(req[r])
      /\ req[r].queried = "empty"
      /\ ~req[r].hadActive
      /\ req[r].pc \in {"release", "done"} )
      => /\ req[r].resp.status = 404
         /\ req[r].resp.kind = "no_active_record"
         /\ req[r].nResp = 1
         /\ NoWrites(req[r])

\* The first variant answers such a clock-out 200 and leaves a record with the
\* request's clockIn and clockOut.
C11_Witness ==
  \E r \in Reqs :
    /\ IsClockOut(req[r])
    /\ req[r].queried = "empty"
    /\ ~req[r].hadActive
    /\ req[r].resp.kind = "created"
    /\ records[req[r].wrote].Punch_In_Time__c = req[r].clockIn
    /\ records[req[r].wrote].Punch_Out_Time__c = req[r].clockOut

\* C12: a clock-out request that repeats, in sequence, a request already
\* answered 200 for its patch, and none of whose own calls fails, is, once
\* answered, answered 404 'no active record', once, and has issued no patch and
\* no create; the punch-out set by the first request stands.
C12_RetryYieldsNoActiveRecord ==
  \A r \in Reqs :
    ( /\ req[r].retryOf # NoReq
      /\ req[r].nResp >= 1
      /\ req[r].lookup # "failed"
      /\ req[r].queried # "failed" )
      => /\ req[r].resp.status = 404
         /\ req[r].resp.kind = "no_active_record"
         /\ req[r].nResp = 1
         /\ NoWrites(req[r])
         /\ records[req[req[r].retryOf].wrote].Punch_Out_Time__c
              = req[req[r].retryOf].clockOut

\* The retry arrives after the first invocation has released the lock.
C12_Witness ==
  \E r \in Reqs :
    /\ req[r].retryOf # NoReq
    /\ req[r].resp.kind = "no_active_record"
    /\ req[req[r].retryOf].resp.kind = "patched"
    /\ req[r].clockOut = req[req[r].retryOf].clockOut

\* The invocation got the company row: the handler went on to parse and
\* validate the dates.
ReachedValidation(q) == q.lookup = "found"

ValidInstant(str) == ~IsNaN(ParseDate(str))

\* C13: a request whose clockIn and clockOut are valid instants, clockOut
\* earlier than or equal to clockIn, and whose handler gets to the validation,
\* is answered 400 'clock out must be after clock in', once, without any
\* external query or write.
C13_OrderingRejected ==
  \A r \in Reqs :
    ( /\ ReachedValidation(req[r])
      /\ ValidInstant(req[r].clockIn)
      /\ Truthy(req[r].clockOut)
      /\ ValidInstant(req[r].clockOut)
      /\ ParseDate(req[r].clockOut) <= ParseDate(req[r].clockIn) )
      => /\ req[r].resp = Error(400, "ordering")
         /\ req[r].nResp = 1
         /\ req[r].pc \in {"release", "done"}
         /\ req[r].nQuery = 0
         /\ NoWrites(req[r])

C13_Witness ==
  \E r \in Reqs :
    /\ req[r].resp = Error(400, "ordering")
    /\ ParseDate(req[r].clockOut) = ParseDate(req[r].clockIn)
    /\ ParseDate(req[r].clockIn) = T5min
    /\ req[r].pc = "done"

\* C14: a request with an invalid clockIn, an invalid clockOut or a clockOut
\* not later than clockIn, whose handler gets to the validation, is answered
\* 400, once, and has issued no external query, create or patch.
C14_ValidationPrecedesExternalCalls ==
  \A r \in Reqs :
    ( /\ ReachedValidation(req[r])
      /\ \/ ~ValidInstant(req[r].clockIn)
         \/ Truthy(req[r].clockOut) /\ ~ValidInstant(req[r].clockOut)
         \/ Truthy(req[r].clockOut)
              /\ ParseDate(req[r].clockOut) <= ParseDate(req[r].clockIn) )
      => /\ req[r].resp.status = 400
         /\ req[r].nResp = 1
         /\ req[r].nQuery = 0
         /\ NoWrites(req[r])

\* An invalid clockOut is answered by the outer catch, after no external call.
C14_Witness ==
  \E r \in Reqs :
    /\ ReachedValidation(req[r])
    /\ ValidInstant(req[r].clockIn)
    /\ Truthy(req[r].clockOut) /\ ~ValidInstant(req[r].clockOut)
    /\ req[r].resp = Error(500, "sync_failed")
    /\ req[r].nQuery = 0
    /\ NoWrites(req[r])

\* C15: an invocation that has answered with an error (400, 404 or 500) has
\* created no external record and updated none.
C15_ErrorMeansNoWrite ==
  \A r \in Reqs :
    (req[r].nResp >= 1 /\ req[r].resp.status \in {400, 404, 500})
      => req[r].wrote = NoRecord

\* The client is told that the create failed; the record exists.
C15_Witness ==
  \E r \in Reqs :
    /\ req[r].resp = Error(500, "create_failed")
    /\ req[r].wrote # NoRecord
    /\ req[r].wrote = Len(records)
    /\ records[req[r].wrote].Employee_Email__c = req[r].userId
    /\ records[req[r].wrote].Punch_In_Time__c = req[r].clockIn

\* C16: every request that arrived is answered, exactly once, whichever call
\* inside it fails (the insert of acquireLock, the delete of releaseLock, the
\* companies query, an external call), and the process is not terminated.
C16_EveryAttemptAnswered ==
  /\ [](\A r \in Reqs : req[r].nResp <= 1)
  /\ [](\A r \in Reqs : req[r].pc # "crashed")
  /\ [](\A r \in Reqs : req[r].pc \in {"done", "rejected"} => req[r].nResp = 1)
  /\ \A r \in Reqs : (req[r].pc = "acquire") ~> (req[r].nResp = 1)

\* The insert of acquireLock failed: the invocation is over, nothing was sent.
C16_Witness ==
  \E r \in Reqs :
    /\ req[r].pc = "rejected"
    /\ req[r].nResp = 0
    /\ req[r].lockId = NoLock
    /\ req[r].blockedBy = NoLock

\* C17: a query of the subject's active record is processed only for an
\* invocation whose lock row is in place; a create or a patch is issued only by
\* an invocation that holds the lock and whose own query, made under that lock,
\* was answered: empty for a create, the record to patch for a patch; and what
\* that query saw is still so when the write is processed.
C17_FreshQueryInsideLock ==
  [][\A r \in Reqs :
       /\ req'[r].nQuery > req[r].nQuery
            => /\ Holding(req[r])
               /\ user_locks[req[r].userId].lock_id = r
       /\ req'[r].nCreate > req[r].nCreate
            => /\ Holding(req[r]) /\ Holding(req'[r])
               /\ user_locks[req[r].userId].lock_id = r
               /\ req[r].nQuery = 1
               /\ req[r].queried = "empty"
               /\ ActiveIds(records, req[r].userId) = {}
       /\ req'[r].nPatch > req[r].nPatch
            => /\ Holding(req[r]) /\ Holding(req'[r])
               /\ user_locks[req[r].userId].lock_id = r
               /\ req[r].nQuery = 1
               /\ req[r].queried = "found"
               /\ req[r].rec \in ActiveIds(records, req[r].userId)
    ]_vars

\* A clock-out patches the record that an earlier invocation created: each of
\* the two made its own query.
C17_Witness ==
  \E r, h \in Reqs :
    /\ r # h
    /\ req[h].resp.kind = "created" /\ req[h].nQuery = 1
    /\ req[r].resp.kind = "patched" /\ req[r].nQuery = 1
    /\ req[r].wrote = req[h].wrote
    /\ req[r].pc = "release"

\* C18: a step of a sync-clock request deletes no record, changes no record's
\* subject, punch-in or location, and changes no punch-out that is set; a
\* patch is applied only to a record whose punch-out is null, so that each
\* record is patched at most once.
C18_RecordLifecycle ==
  [][/\ Len(records') >= Len(records)
     /\ \A i \in 1..Len(records) :
          /\ records'[i].Employee_Email__c = records[i].Employee_Email__c
          /\ records'[i].Punch_In_Time__c = records[i].Punch_In_Time__c
          /\ records'[i].Location_Type__c = records[i].Location_Type__c
          /\ records[i].Punch_Out_Time__c # Null
               => records'[i].Punch_Out_Time__c = records[i].Punch_Out_Time__c
     /\ \A r \in Reqs :
          (req'[r].nPatch > req[r].nPatch /\ req'[r].wrote # NoRecord)
            => records[req'[r].wrote].Punch_Out_Time__c = Null
    ]_vars

\* Two clock-outs of the variant without the lock, with different clockOut,
\* were both answered 200 for a patch of the same record.
C18_Witness ==
  \E r1, r2 \in Reqs :
    /\ r1 # r2
    /\ req[r1].resp.kind = "patched"
    /\ req[r2].resp.kind = "patched"
    /\ req[r1].wrote = req[r2].wrote
    /\ ParseDate(req[r1].clockOut) # ParseDate(req[r2].clockOut)
    /\ ParseDate(records[req[r1].wrote].Punch_Out_Time__c) = ParseDate(req[r2].clockOut)

\* C19: a lock row is deleted only by the releaseLock of the invocation that
\* inserted it; an invocation that got no lock never gets to a releaseLock.
C19_LockOwnership ==
  /\ [][\A u \in Subjects :
          (user_locks[u] # NoRow /\ user_locks'[u] # user_locks[u])
            => /\ user_locks'[u] = NoRow
               /\ \E r \in Reqs :
                    /\ r = user_locks[u].lock_id
                    /\ req[r].userId = u
                    /\ req[r].lockId = r
                    /\ req[r].pc = "release"
                    /\ req'[r].pc = "done"
       ]_vars
  /\ [](\A r \in Reqs :
          /\ req[r].pc = "release"
               => (req[r].lockId = r /\ user_locks[req[r].userId].lock_id = r)
          /\ req[r].blockedBy # NoLock
               => (req[r].pc = "done" /\ req[r].lockId = NoLock))

\* The loser is done and the winner's row is still in place.
C19_Witness ==
  \E r, h \in Reqs :
    /\ req[r].blockedBy = h
    /\ req[r].pc = "done"
    /\ req[h].pc = "release"
    /\ user_locks[req[h].userId].lock_id = h

\* C20: an acquireLock that finds no row of its own subject gets the lock,
\* whatever rows other subjects have; an invocation that got no lock was
\* blocked by an invocation of its own subject.
C20_PerSubjectLocking ==
  /\ [][\A r \in Reqs :
          ( /\ req[r].pc = "acquire"
            /\ req'[r].pc # "acquire"
            /\ user_locks[req[r].userId] = NoRow )
            => /\ req'[r].lockId = r
               /\ req'[r].pc = "company"
               /\ user_locks'[req[r].userId].lock_id = r
               /\ \A u \in Subjects \ {req[r].userId} : user_locks'[u] = user_locks[u]
       ]_vars
  /\ [](\A r \in Reqs :
          req[r].blockedBy # NoLock
            => req[req[r].blockedBy].userId = req[r].userId)

\* Invocations of two subjects are in their critical sections together, each
\* with its lock row.
C20_Witness ==
  \E r1, r2 \in Reqs :
    /\ req[r1].userId = "a@x" /\ req[r2].userId = "b@x"
    /\ req[r1].pc \in CriticalPcs \ {"company"}
    /\ req[r2].pc \in CriticalPcs \ {"company"}
    /\ user_locks["a@x"].lock_id = r1
    /\ user_locks["b@x"].lock_id = r2

\* C21: an invocation issues at most one external write, a create or a patch,
\* and at most one query; after a query or a write that failed it issues no
\* further external call, only the release is left.
C21_NoAutomaticRetry ==
  \A r \in Reqs :
    /\ req[r].nCreate + req[r].nPatch <= 1
    /\ req[r].nQuery <= 1
    /\ req[r].queried = "failed"
         => (NoWrites(req[r]) /\ req[r].pc \in {"release", "done"})
    /\ (req[r].nCreate + req[r].nPatch = 1 /\ req[r].wrote = NoRecord)
         => (req[r].nResp = 1 /\ req[r].pc \in {"release", "done"})

\* A create failed and a patch failed: each was issued once.
C21_Witness ==
  \E r1, r2 \in Reqs :
    /\ req[r1].resp.kind = "create_failed" /\ req[r1].nCreate = 1 /\ req[r1].pc = "done"
    /\ req[r2].resp.kind = "update_failed" /\ req[r2].nPatch = 1 /\ req[r2].pc = "done"

\* C22: of two invocations whose external call failed, at the same call, one
\* for an authentication failure and the other for a transient failure or a
\* semantic rejection, the responses differ.
C22_AuthFailureDistinct ==
  \A r1, r2 \in Reqs :
    ( /\ req[r1].extError = "auth"
      /\ req[r2].extError \in {"transient", "semantic"}
      /\ req[r1].nQuery = req[r2].nQuery
      /\ req[r1].nPatch = req[r2].nPatch
      /\ req[r1].nCreate = req[r2].nCreate )
      => req[r1].resp # req[r2].resp

\* A create refused for its token and a create that met a network failure
\* were both answered 500 'failed to create record'.
C22_Witness ==
  \E r1, r2 \in Reqs :
    /\ req[r1].extError = "auth" /\ req[r1].nCreate = 1
    /\ req[r2].extError = "transient" /\ req[r2].nCreate = 1
    /\ req[r1].resp = Error(500, "create_failed")
    /\ req[r2].resp = Error(500, "create_failed")

\* An external call of the invocation was answered with a failure.
CallFailed(q) ==
  \/ q.queried = "failed"
  \/ (q.nCreate + q.nPatch = 1 /\ q.wrote = NoRecord)

\* C23: two requests that differ only in timezone, whose queries were answered
\* alike and none of whose external calls failed, get the same kind of
\* response; and the instants a request stores are those of its clockIn and
\* clockOut, whatever its timezone: the punch-in of the record it creates, the
\* punch-out of the record it patches.
C23_TimezoneDoesNotAffectInstants ==
  /\ [](\A r1, r2 \in Reqs :
          ( /\ req[r1].pc = "done" /\ req[r2].pc = "done"
            /\ req[r1].userId = req[r2].userId
            /\ req[r1].clockIn = req[r2].clockIn
            /\ req[r1].clockOut = req[r2].clockOut
            /\ req[r1].isRemote = req[r2].isRemote
            /\ req[r1].queried \in {"empty", "found"}
            /\ req[r1].queried = req[r2].queried
            /\ req[r1].rec = req[r2].rec
            /\ ~CallFailed(req[r1]) /\ ~CallFailed(req[r2]) )
            => req[r1].resp.kind = req[r2].resp.kind)
  /\ [][\A r \in Reqs :
          /\ (req'[r].nCreate > req[r].nCreate /\ req'[r].wrote # NoRecord)
               => ParseDate(records'[req'[r].wrote].Punch_In_Time__c)
                    = ParseDate(req[r].clockIn)
          /\ (req'[r].nPatch > req[r].nPatch /\ req'[r].wrote # NoRecord)
               => ParseDate(records'[req'[r].wrote].Punch_Out_Time__c)
                    = ParseDate(req[r].clockOut)
       ]_vars

\* The same clock-in with two timezones, both after an empty query: one stored
\* a record whose punch-in is not the request's instant, the other was
\* answered 500.
C23_Witness ==
  \E r1, r2 \in Reqs :
    /\ req[r1].clockIn = req[r2].clockIn
    /\ req[r1].clockOut = req[r2].clockOut
    /\ req[r1].userId = req[r2].userId
    /\ req[r1].timezone = "America/New_York" /\ req[r2].timezone = "EDT"
    /\ req[r1].queried = "empty" /\ req[r2].queried = "empty"
    /\ req[r1].resp.kind = "created"
    /\ ParseDate(records[req[r1].wrote].Punch_In_Time__c) # ParseDate(req[r1].clockIn)
    /\ req[r2].resp = Error(500, "sync_failed")
    /\ req[r2].nCreate = 0

\* C24: the server listens only when initDb has completed successfully, and a
\* request is served only by a listening server; when initDb has failed the
\* process has exited with a non-zero code, and it never listens afterwards.
C24_StartupOrdering ==
  /\ [](server.phase = "listening" => server.db = "ready")
  /\ [](server.db = "failed" => (server.phase = "exited" /\ server.exitCode # 0))
  /\ [](server.phase = "exited" => server.db = "failed")
  /\ [](\A r \in Reqs : req[r].pc # "idle" => server.phase = "listening")
  /\ [][server.phase = "exited" => server'.phase = "exited"]_vars
  /\ [][server.phase # server'.phase => server.db = "pending"]_vars

\* initDb failed: the process has exited and no request was served.
C24_Witness ==
  /\ server.phase = "exited"
  /\ server.db = "failed"
  /\ server.exitCode = 1
  /\ \A r \in Reqs : req[r].pc = "idle"

\* C25: when the query of a clock-out is answered with the active record, a
\* request clockIn that is at most 60000 ms earlier or later than the record's
\* punch-in, 60000 ms included, leads to the patch of that record, and any
\* greater difference to the answer 400 'clock-in mismatch', without a patch.
C25_ToleranceBoundary ==
  [][\A r \in Reqs :
       (req[r].pc = "queryOut" /\ req'[r].queried = "found")
         => LET d == ParseDate(records[req'[r].rec].Punch_In_Time__c)
                       - ParseDate(req[r].clockIn)
            IN /\ (d <= ToleranceMs /\ 0 - d <= ToleranceMs)
                    => (req'[r].pc = "patch" /\ req'[r].nResp = 0)
               /\ (d > ToleranceMs \/ 0 - d > ToleranceMs)
                    => /\ req'[r].resp = Error(400, "clock_in_mismatch")
                       /\ req'[r].pc = "release"
                       /\ NoWrites(req'[r])
    ]_vars

\* A clockIn exactly 60000 ms later than the punch-in led to a patch (which the
\* external system refused), and one exactly 60000 ms earlier patched the
\* record.
C25_Witness ==
  \E r1, r2 \in Reqs :
    /\ ParseDate(req[r1].clockIn) = T5min + ToleranceMs
    /\ req[r1].nPatch = 1
    /\ ParseDate(req[r2].clockIn) = T5min - ToleranceMs
    /\ req[r2].resp.kind = "patched"
    /\ ParseDate(records[req[r2].wrote].Punch_In_Time__c) = T5min

\* C26: an invocation that holds the lock has sent its one response when its
\* release is issued, the lock row being still present then; a lock row is
\* deleted only for an invocation that has responded; and a request of the
\* same subject whose acquisition is processed while the holder has responded
\* and not yet released is answered 200 'already being processed', with no
\* query and no write, the record set unchanged.
C26_ResponsePrecedesRelease ==
  /\ [](\A r \in Reqs :
          /\ req[r].pc = "release"
               => /\ req[r].nResp = 1
                  /\ user_locks[req[r].userId] # NoRow
                  /\ user_locks[req[r].userId].lock_id = r
          /\ (req[r].lockId # NoLock /\ req[r].pc = "done") => req[r].nResp = 1)
  /\ [][\A u \in Subjects :
          (user_locks[u] # NoRow /\ user_locks'[u] = NoRow)
            => req[user_locks[u].lock_id].nResp = 1]_vars
  /\ [][\A r, h \in Reqs :
          ( /\ req[r].pc = "acquire" /\ req'[r].pc # "acquire"
            /\ req[h].pc = "release" /\ req[h].nResp = 1
            /\ req[h].userId = req[r].userId )
            => /\ req'[r].resp = Success("in_progress")
               /\ req'[r].resp.success
               /\ req'[r].nResp = 1
               /\ req'[r].pc = "done"
               /\ req'[r].nQuery = 0
               /\ NoWrites(req'[r])
               /\ records' = records]_vars

\* The holder has been answered for its patch and its lock row is still there;
\* a request of the same subject was turned away by that row.
C26_Witness ==
  \E r, h \in Reqs :
    /\ req[h].pc = "release" /\ req[h].resp.kind = "patched"
    /\ user_locks[req[h].userId] # NoRow
    /\ req[r].userId = req[h].userId
    /\ req[r].blockedBy = h
    /\ req[r].pc = "done" /\ req[r].resp = Success("in_progress")

\* C27: the record a clock-out query returns is an active record of the
\* subject with the greatest punch-in; a request whose clockIn is within the
\* tolerance of another active record but not of that one is answered 400
\* 'clock-in mismatch' without a write; and a patch changes no record but the
\* one with the greatest punch-in among the subject's active records.
C27_MostRecentActiveOnly ==
  /\ [][\A r \in Reqs :
          (req[r].pc = "queryOut" /\ req'[r].queried = "found")
            => LET act == ActiveIds(records, req[r].userId)
                   f == req'[r].rec
                   ci == ParseDate(req[r].clockIn)
                   Near(i) == Abs(ParseDate(records[i].Punch_In_Time__c) - ci) <= ToleranceMs
               IN /\ f \in act
                  /\ \A j \in act : ParseDate(records[j].Punch_In_Time__c)
                                       <= ParseDate(records[f].Punch_In_Time__c)
                  /\ req'[r].pc = "patch" => Near(f)
                  /\ ((\E j \in act : Near(j)) /\ ~Near(f))
                       => /\ req'[r].resp = Error(400, "clock_in_mismatch")
                          /\ req'[r].pc = "release"
                          /\ NoWrites(req'[r])]_vars
  /\ [][\A r \in Reqs :
          (req[r].pc = "patch" /\ req'[r].pc # "patch")
            => \A i \in 1..Len(records) :
                 records'[i] # records[i]
                   => /\ i = req[r].rec
                      /\ \A j \in ActiveIds(records, req[r].userId) :
                            ParseDate(records[j].Punch_In_Time__c)
                              <= ParseDate(records[i].Punch_In_Time__c)]_vars

\* Both records of the subject are active; the request carrying the clockIn of
\* the older one was compared with the most recent one and answered mismatch.
C27_Witness ==
  \E r \in Reqs :
    /\ ActiveIds(records, "a@x") = {1, 2}
    /\ req[r].userId = "a@x"
    /\ req[r].clockIn = records[1].Punch_In_Time__c
    /\ req[r].rec = 2
    /\ req[r].resp = Error(400, "clock_in_mismatch")

\* C28: a patch that succeeded leaves the number of records, every record
\* other than the one the query returned, and that record's subject, punch-in
\* and location type unchanged, and sets that record's punch-out to the
\* request's clockOut.
C28_PatchFrame ==
  [][\A r \in Reqs :
       (req[r].pc = "patch" /\ req'[r].resp.kind = "patched")
         => LET id == req[r].rec IN
            /\ req'[r].resp.id = id
            /\ Len(records') = Len(records)
            /\ \A i \in 1..Len(records) : i # id => records'[i] = records[i]
            /\ records'[id].Employee_Email__c = records[id].Employee_Email__c
            /\ records'[id].Punch_In_Time__c = records[id].Punch_In_Time__c
            /\ records'[id].Location_Type__c = records[id].Location_Type__c
            /\ records[id].Punch_Out_Time__c = Null
            /\ ParseDate(records'[id].Punch_Out_Time__c) = ParseDate(req[r].clockOut)
    ]_vars

\* The most recent record was patched while the subject's older active record
\* and the other subject's record stand as they were.
C28_Witness ==
  \E r \in Reqs :
    /\ req[r].resp.kind = "patched" /\ req[r].wrote = 2
    /\ records[2].Punch_Out_Time__c = req[r].clockOut
    /\ records[1] = RecordPayload("a@x", T0, TRUE)
    /\ records[3].Employee_Email__c = "b@x"

\* C29: the record a clock-in request creates is appended with the request's
\* userId as subject, the instant of the request's clockIn as punch-in, a null
\* punch-out, and location type Remote when isRemote is truthy and In Office
\* otherwise; the records that existed are unchanged, and the response carries
\* the new record's id.
C29_CreatedRecordContent ==
  [][\A r \in Reqs :
       (req[r].pc = "create" /\ req'[r].resp.kind = "created")
         => LET n == Len(records) + 1 IN
            /\ Len(records') = n
            /\ \A i \in 1..Len(records) : records'[i] = records[i]
            /\ records'[n].Employee_Email__c = req[r].userId
            /\ ParseDate(records'[n].Punch_In_Time__c) = ParseDate(req[r].clockIn)
            /\ records'[n].Punch_Out_Time__c = Null
            /\ req[r].isRemote => records'[n].Location_Type__c = "Remote"
            /\ ~req[r].isRemote => records'[n].Location_Type__c = "In Office"
            /\ req'[r].resp.id = n
    ]_vars

\* A remote clock-in and an in-office clock-in of another subject have each
\* created their record.
C29_Witness ==
  \E r1, r2 \in Reqs :
    /\ req[r1].resp.kind = "created" /\ req[r1].isRemote
    /\ records[req[r1].wrote].Location_Type__c = "Remote"
    /\ req[r2].resp.kind = "created" /\ ~req[r2].isRemote
    /\ records[req[r2].wrote].Location_Type__c = "In Office"
    /\ req[r1].userId # req[r2].userId

\* C30: an invocation that holds the lock and whose companies query returned
\* no row has been answered 404 once, has issued no external query or write,
\* goes to the release of its lock, and once it is done its lock row is gone.
C30_MissingCompany ==
  \A r \in Reqs :
    req[r].lookup = "empty"
      => /\ req[r].lockId # NoLock
         /\ req[r].resp = Error(404, "no_company")
         /\ req[r].nResp = 1
         /\ req[r].nQuery = 0
         /\ NoWrites(req[r])
         /\ req[r].pc \in {"release", "done"}
         /\ req[r].pc = "release" => user_locks[req[r].userId].lock_id = r
         /\ req[r].pc = "done"
              => (user_locks[req[r].userId] = NoRow
                  \/ user_locks[req[r].userId].lock_id # r)

\* The companies table is empty: the invocation was answered 404 and its lock
\* row is deleted.
C30_Witness ==
  \E r \in Reqs :
    /\ ~companies
    /\ req[r].lookup = "empty" /\ req[r].pc = "done"
    /\ req[r].resp.status = 404
    /\ req[r].lockId # NoLock
    /\ user_locks[req[r].userId] = NoRow

\* C31: the bulk handler has created one record for each of the elements
\* before the one it is at, in list order, each with the request's id as
\* subject and the element's punch-in and location type; it answers 200 only
\* after a create for every element; none of its steps touches user_locks or
\* a sync-clock invocation; and a create either appends the payload of the
\* current element and moves on, or fails, and then the handler answers 500
\* and stops with the records created so far left in place.
C31_BulkPartialWrites ==
  /\ [](bulk.pc \in {"post", "done"}
          => /\ Len(bulk.wrote) = bulk.i - 1
             /\ \A j \in 1..Len(bulk.wrote) :
                  /\ bulk.wrote[j] \in 1..Len(records)
                  /\ j > 1 => bulk.wrote[j - 1] < bulk.wrote[j]
                  /\ records[bulk.wrote[j]].Employee_Email__c = bulk.id
                  /\ records[bulk.wrote[j]].Punch_In_Time__c = bulk.clockRecords[j].clockIn
                  /\ records[bulk.wrote[j]].Location_Type__c
                       = (IF bulk.clockRecords[j].isRemote THEN "Remote" ELSE "In Office")
             /\ bulk.resp.status = 200 => Len(bulk.wrote) = Len(bulk.clockRecords))
  /\ [][bulk' # bulk => (user_locks' = user_locks /\ req' = req)]_vars
  /\ [][(bulk.pc = "post" /\ bulk' # bulk)
          => \/ /\ records' = Append(records, BulkPayload(bulk.id, bulk.clockRecords[bulk.i]))
                /\ bulk'.i = bulk.i + 1
                /\ bulk'.resp.status # 500
             \/ /\ records' = records
                /\ bulk'.resp = Error(500, "sync_user_failed")
                /\ bulk'.pc = "done"
                /\ bulk'.i = bulk.i /\ bulk'.wrote = bulk.wrote]_vars

\* The create of the second element failed and was answered 500; the record of
\* the first element stands, a second active record of a subject whose lock a
\* sync-clock invocation holds.
C31_Witness ==
  /\ bulk.pc = "done" /\ bulk.resp.status = 500
  /\ Len(bulk.clockRecords) = 2 /\ bulk.i = 2 /\ Len(bulk.wrote) = 1
  /\ records[bulk.wrote[1]] = BulkPayload(bulk.id, bulk.clockRecords[1])
  /\ Cardinality(ActiveIds(records, bulk.id)) = 2
  /\ \E r \in Reqs : Holding(req[r]) /\ req[r].userId = bulk.id
                      /\ user_locks[bulk.id] # NoRow

\* C32: a callback of a flow whose connect call had returned an organization
\* code, and which stored tokens, stored them under that code.
C32_CallbackStoresForInitiator ==
  \A f \in Flows :
    (CallbackOf(f).status = 200 /\ CallbackOf(f).initiated # NoCode)
      => CallbackOf(f).storedUnder = CallbackOf(f).initiated

\* The connect calls of two organizations returned different codes before
\* either callback arrived; the callback of one flow stored its tokens in the
\* row of the other organization, and its own row still holds null tokens.
C32_Witness ==
  \E f, g \in Flows :
    /\ f # g
    /\ Returned(ConnectOf(f)) # NoCode /\ Returned(ConnectOf(g)) # NoCode
    /\ Returned(ConnectOf(f)) # Returned(ConnectOf(g))
    /\ CallbackOf(f).initiated = Returned(ConnectOf(f))
    /\ CallbackOf(f).status = 200
    /\ CallbackOf(f).storedUnder = Returned(ConnectOf(g))
    /\ CallbackOf(g).pc = "idle"
    /\ GetTokensByOrganizationCode(oauth.rows, Returned(ConnectOf(f))).tokens = NullTokens
    /\ GetTokensByOrganizationCode(oauth.rows, Returned(ConnectOf(g))).tokens
         = IssuedTokens(f)
    /\ GetTokensByOrganizationCode(oauth.rows, Returned(ConnectOf(g))).company_domain
         = DomainOf(g)

\* C33: a verify call that reported connected=true read a row whose access
\* token is not null.
C33_ConnectedOnlyWithToken ==
  \A f \in Flows :
    VerifyOf(f).connected => VerifyOf(f).hadToken

\* No callback has been received; the connect call stored the row with null
\* tokens, and the verify call of that organization reported connected=true.
C33_Witness ==
  \E f \in Flows :
    /\ \A g \in Flows : CallbackOf(g).pc = "idle"
    /\ Returned(ConnectOf(f)) # NoCode
    /\ GetTokensByOrganizationCode(oauth.rows, Returned(ConnectOf(f))).tokens = NullTokens
    /\ VerifyOf(f).status = 200
    /\ VerifyOf(f).connected
    /\ ~VerifyOf(f).hadToken

\* The token request of the callback was rejected, or answered without one of
\* the three values.
ExchangeUnusable(b) ==
  \/ b.got.answer = "failed"
  \/ /\ b.got.answer = "data"
     /\ (b.got.access_token = Null \/ b.got.refresh_token = Null
                                   \/ b.got.instance_url = Null)

\* C34: a callback without a code is answered 400 and issues no token request
\* and no store; a callback whose token request failed or was answered without
\* access_token, refresh_token or instance_url is answered 500 and issues no
\* store; and the step that answers such a callback leaves the rows of the
\* table companies as they were.
C34_CallbackFailureLeavesStore ==
  /\ [](\A f \in Flows :
          LET b == CallbackOf(f) IN
          /\ (b.pc # "idle" /\ ~b.hasCode)
               => (b.status = 400 /\ b.pc = "done" /\ b.nExchange = 0 /\ b.nStore = 0)
          /\ ExchangeUnusable(b)
               => (b.status = 500 /\ b.pc = "done" /\ b.nExchange = 1 /\ b.nStore = 0
                   /\ b.storedUnder = NoCode))
  /\ [][\A f \in Flows :
          LET b == CallbackOf(f)' IN
          (b # CallbackOf(f) /\ ((b.pc # "idle" /\ ~b.hasCode) \/ ExchangeUnusable(b)))
            => oauth'.rows = oauth.rows]_vars

\* A connect call has stored its row; one callback came without a code, another
\* got a response without refresh_token, and the row still holds null tokens.
C34_Witness ==
  \E f, g \in Flows :
    /\ Len(oauth.rows) = 1 /\ oauth.rows[1].tokens = NullTokens
    /\ CallbackOf(f).pc = "done" /\ ~CallbackOf(f).hasCode
    /\ CallbackOf(f).status = 400
    /\ CallbackOf(g).got.answer = "data"
    /\ CallbackOf(g).got.access_token # Null
    /\ CallbackOf(g).got.refresh_token = Null
    /\ CallbackOf(g).status = 500

====
